---- MODULE Spec2Model ----
(***************************************************************************)
(* Solar estimation engine of backend/app.py: the irradiance resolver      *)
(* (remote query with nearest-city fallback), the loss model, the energy   *)
(* estimator, the benefits and financial calculators, panel and battery    *)
(* sizing, the three request handlers that drive them, and the static     *)
(* city catalog endpoint.                                                  *)
(*                                                                         *)
(* Numbers.  Python floats are modelled by the exact real values of the    *)
(* expressions the code evaluates: a number is a rational                  *)
(* [neg, n, d] = (-1)^neg * n / d whose numerator and denominator are      *)
(* naturals of arbitrary size, kept as little-endian sequences of base     *)
(* 1000 limbs (TLC's own integers are 32 bits wide).  IEEE-754 rounding    *)
(* error of the individual float operations is not modelled, except where  *)
(* a floor or a rounding tie depends on it: fl rounds a rational to the    *)
(* nearest double, and fl_cmp decides on which side of an exact decimal    *)
(* tie the double nearest to a quotient of two integers lies.              *)
(***************************************************************************)
EXTENDS Integers, Sequences, FiniteSets, TLC

Abs(x) == IF x < 0 THEN -x ELSE x

(* ------------------------- naturals as limbs --------------------------- *)
(* A natural is the sequence of its base-1000 digits, least significant    *)
(* first, without leading zeros; zero is <<>>.  Carries are resolved by    *)
(* look-ahead, so that no operation recurses along the digits.             *)

At(a, i) == IF i >= 1 /\ i <= Len(a) THEN a[i] ELSE 0

\* the digits of a without the zeros at the top
LNorm(a) ==
  LET nz == {i \in 1..Len(a) : a[i] # 0}
  IN  IF nz = {} THEN <<>>
      ELSE SubSeq(a, 1, CHOOSE i \in nz : \A j \in nz : j <= i)

RECURSIVE LFromNat(_)
LFromNat(k) == IF k = 0 THEN <<>> ELSE <<k % 1000>> \o LFromNat(k \div 1000)

RECURSIVE LToNat(_)
LToNat(a) == IF a = <<>> THEN 0 ELSE Head(a) + 1000 * LToNat(Tail(a))

\* one round of carrying: every column keeps its last digit and takes the
\* rest of the column below
CarryPass(c) ==
  IF c = <<>> THEN c
  ELSE SubSeq([i \in 1..(Len(c) + 1) |-> (At(c, i) % 1000) + (At(c, i - 1) \div 1000)],
              1, Len(c) + 1)

\* the digits of the number whose columns (each at most 1998) are c3
CarryLook(c3) ==
  LET cin(i) == \E j \in 1..(i - 1) :
                  /\ c3[j] >= 1000
                  /\ \A m \in (j + 1)..(i - 1) : c3[m] = 999
  IN  IF c3 = <<>> THEN c3
      ELSE LNorm(SubSeq([i \in 1..(Len(c3) + 1) |->
                           (At(c3, i) + (IF cin(i) THEN 1 ELSE 0)) % 1000],
                        1, Len(c3) + 1))

\* the digits of the number whose columns (each below 2^31 - 2^22) are c
Carry(c) == CarryLook(CarryPass(CarryPass(CarryPass(c))))

\* a * k for a natural k below 2 000 000
LMul(a, k) ==
  IF a = <<>> THEN a ELSE Carry(SubSeq([i \in 1..Len(a) |-> a[i] * k], 1, Len(a)))

LAdd(a, b) ==
  LET n == IF Len(a) > Len(b) THEN Len(a) ELSE Len(b)
  IN  IF a = <<>> THEN b
      ELSE IF b = <<>> THEN a
      ELSE Carry(SubSeq([i \in 1..n |-> At(a, i) + At(b, i)], 1, n))

\* a - b for a >= b
LSub(a, b) ==
  LET d(i) == At(a, i) - At(b, i)
      bin(i) == \E j \in 1..(i - 1) :
                  /\ d(j) < 0
                  /\ \A m \in (j + 1)..(i - 1) : d(m) = 0
  IN  IF b = <<>> THEN a
      ELSE IF a = b THEN <<>>
      ELSE LNorm(SubSeq([i \in 1..Len(a) |->
                           (d(i) - (IF bin(i) THEN 1 ELSE 0) + 1000) % 1000],
                        1, Len(a)))

\* -1, 0, 1 as a < b, a = b, a > b
LCmp(a, b) ==
  IF Len(a) < Len(b) THEN -1
  ELSE IF Len(a) > Len(b) THEN 1
  ELSE IF \E i \in 1..Len(a) : a[i] < b[i] /\ \A j \in (i + 1)..Len(a) : a[j] = b[j]
  THEN -1
  ELSE IF a = b THEN 0 ELSE 1

\* a * 1000^k
LShift(a, k) == IF a = <<>> THEN <<>> ELSE [i \in 1..k |-> 0] \o a

LPow1000(k) == SubSeq([i \in 1..(k + 1) |-> IF i = k + 1 THEN 1 ELSE 0], 1, k + 1)

RECURSIVE Conv(_, _, _, _, _)
\* the sum over j in lo..hi of a[j] * b[i - j + 1]
Conv(a, b, i, lo, hi) ==
  IF lo > hi THEN 0
  ELSE IF lo = hi THEN a[lo] * At(b, i - lo + 1)
  ELSE LET mid == (lo + hi) \div 2
       IN  Conv(a, b, i, lo, mid) + Conv(a, b, i, mid + 1, hi)

LMulL(a, b) ==
  IF a = <<>> \/ b = <<>> THEN <<>>
  ELSE Carry(SubSeq([i \in 1..(Len(a) + Len(b)) |-> Conv(a, b, i, 1, Len(a))],
                    1, Len(a) + Len(b)))

RECURSIVE LDivRec(_, _)
\* quotient and remainder of a by a natural d, 0 < d < 2 000 000
LDivRec(a, d) ==
  IF a = <<>> THEN [q |-> <<>>, r |-> 0]
  ELSE LET hi == LDivRec(Tail(a), d)
           t  == hi.r * 1000 + Head(a)
       IN  [q |-> <<t \div d>> \o hi.q, r |-> t % d]

\* how many zero digits a has at the bottom
LLowZeros(a) ==
  IF a = <<>> THEN 0
  ELSE (CHOOSE i \in 1..Len(a) : a[i] # 0 /\ \A j \in 1..(i - 1) : a[j] = 0) - 1

LDropLow(a, k) == IF k >= Len(a) THEN <<>> ELSE SubSeq(a, k + 1, Len(a))

RECURSIVE QuotBits(_, _, _, _)
\* bit b of the quotient is set, making q into t, if t * s is still <= a
QuotBit(a, s, b, q, t) ==
  IF LCmp(LMulL(s, LFromNat(t)), a) <= 0
  THEN QuotBits(a, s, b - 1, t)
  ELSE QuotBits(a, s, b - 1, q)

\* the largest q + (a number below 2^(b+1)) whose product with s is <= a
QuotBits(a, s, b, q) ==
  IF b < 0 THEN q ELSE QuotBit(a, s, b, q, q + 2^b)

\* floor(a / s) as an integer (below 2^30), for naturals a and s > 0
LQuot(a, s) ==
  LET k  == LLowZeros(s)
      a1 == LDropLow(a, k)
      s1 == LDropLow(s, k)
  IN  IF LCmp(a, s) < 0 THEN 0
      ELSE IF s1 = <<1>> THEN LToNat(a1)
      ELSE IF Len(s1) <= 2 /\ LToNat(s1) < 2000000
      THEN LToNat(LNorm(LDivRec(a1, LToNat(s1)).q))
      ELSE QuotBits(a, s, 29, 0)

\* a / s rounded to the nearest integer, an exact half to the even one
HalfUp(q, c) == IF c > 0 \/ (c = 0 /\ q % 2 = 1) THEN q + 1 ELSE q
LRoundQuot(a, s, q) == HalfUp(q, LCmp(LMul(LSub(a, LMulL(s, LFromNat(q))), 2), s))
LRoundDiv(a, s) == LRoundQuot(a, s, LQuot(a, s))

(* ------------------------------ rationals ------------------------------ *)

Min2(a, b) == IF a < b THEN a ELSE b

\* n / d with the common factors 1000 cancelled; zero is 0 / 1
QMake(neg, n, d) ==
  LET k == Min2(LLowZeros(n), LLowZeros(d))
  IN  IF n = <<>> THEN [neg |-> FALSE, n |-> <<>>, d |-> <<1>>]
      ELSE [neg |-> neg, n |-> LDropLow(n, k), d |-> LDropLow(d, k)]

\* the decimal k / 1000^f, for an integer k
QDec(k, f) == QMake(k < 0, LFromNat(Abs(k)), LPow1000(f))
QInt(k) == QDec(k, 0)

QIsZero(x) == x.n = <<>>
QNeg(x) == IF QIsZero(x) THEN x ELSE [x EXCEPT !.neg = ~x.neg]
QAbs(x) == [x EXCEPT !.neg = FALSE]
QMul(x, y) == QMake(x.neg # y.neg, LMulL(x.n, y.n), LMulL(x.d, y.d))
\* x / y for y # 0
QDiv(x, y) == QMake(x.neg # y.neg, LMulL(x.n, y.d), LMulL(x.d, y.n))

\* -1, 0, 1 as |x| < |y|, |x| = |y|, |x| > |y|
QCmpAbs(x, y) == LCmp(LMulL(x.n, y.d), LMulL(y.n, x.d))

\* -1, 0, 1 as x < y, x = y, x > y
QCmp(x, y) ==
  IF x.neg /\ ~y.neg THEN -1
  ELSE IF ~x.neg /\ y.neg THEN 1
  ELSE IF x.neg THEN -QCmpAbs(x, y) ELSE QCmpAbs(x, y)

QLt(x, y) == QCmp(x, y) < 0
QLe(x, y) == QCmp(x, y) <= 0
QEq(x, y) == QCmp(x, y) = 0
QPos(x) == ~x.neg /\ ~QIsZero(x)

\* numerators of x and y over a common denominator
QAlign(x, y) ==
  LET kx == LLowZeros(x.d)
      ky == LLowZeros(y.d)
  IN  IF LDropLow(x.d, kx) = LDropLow(y.d, ky)
      THEN IF kx >= ky
           THEN [a |-> x.n, b |-> LShift(y.n, kx - ky), d |-> x.d]
           ELSE [a |-> LShift(x.n, ky - kx), b |-> y.n, d |-> y.d]
      ELSE [a |-> LMulL(x.n, y.d), b |-> LMulL(y.n, x.d), d |-> LMulL(x.d, y.d)]

QAddAligned(x, y, c) ==
  IF x.neg = y.neg THEN QMake(x.neg, LAdd(c.a, c.b), c.d)
  ELSE IF LCmp(c.a, c.b) >= 0 THEN QMake(x.neg, LSub(c.a, c.b), c.d)
  ELSE QMake(y.neg, LSub(c.b, c.a), c.d)

QAdd(x, y) == QAddAligned(x, y, QAlign(x, y))

QSub(x, y) == QAdd(x, QNeg(y))
QMax(x, y) == IF QLt(x, y) THEN y ELSE x

RECURSIVE QPow(_, _)
QPow(x, k) ==
  IF k = 0 THEN QInt(1)
  ELSE LET y == QPow(x, k - 1)
       IN  IF QIsZero(y) THEN y ELSE QMul(x, y)

Pow10(k) == 10^k

\* the integer r with the sign neg
Signed(neg, r) == IF neg THEN -r ELSE r

\* Python round(x, nd), as the integer round(x, nd) * 10^nd: to the nearest,
\* an exact half to the even neighbour
QRound(x, nd) == Signed(x.neg, LRoundDiv(LMul(x.n, Pow10(nd)), x.d))

\* math.floor(x)
FloorOfQuot(x, q) ==
  IF ~x.neg THEN q
  ELSE IF LCmp(LMulL(x.d, LFromNat(q)), x.n) = 0 THEN -q ELSE -(q + 1)

QFloor(x) == FloorOfQuot(x, LQuot(x.n, x.d))

(* --------------------------- constant tables --------------------------- *)

\* NIGERIA_SOLAR_DATA, in the dict's insertion (= iteration) order
NIGERIA_SOLAR_DATA ==
  << [name |-> "lagos",         lat |-> QDec(6524400, 2),  lng |-> QDec(3379200, 2),
      irradiance |-> QDec(4800, 1), region |-> "south"],
     [name |-> "abuja",         lat |-> QDec(9057900, 2),  lng |-> QDec(7495100, 2),
      irradiance |-> QDec(5200, 1), region |-> "middle_belt"],
     [name |-> "kano",          lat |-> QDec(12002200, 2), lng |-> QDec(8592000, 2),
      irradiance |-> QDec(5500, 1), region |-> "north"],
     [name |-> "ibadan",        lat |-> QDec(7377600, 2),  lng |-> QDec(3947000, 2),
      irradiance |-> QDec(4900, 1), region |-> "south"],
     [name |-> "port harcourt", lat |-> QDec(4815600, 2),  lng |-> QDec(7049800, 2),
      irradiance |-> QDec(4500, 1), region |-> "south"],
     [name |-> "benin city",    lat |-> QDec(6335000, 2),  lng |-> QDec(5603700, 2),
      irradiance |-> QDec(4700, 1), region |-> "south"],
     [name |-> "kaduna",        lat |-> QDec(10510500, 2), lng |-> QDec(7416500, 2),
      irradiance |-> QDec(5300, 1), region |-> "north"],
     [name |-> "maiduguri",     lat |-> QDec(11833300, 2), lng |-> QDec(13150000, 2),
      irradiance |-> QDec(5600, 1), region |-> "north"],
     [name |-> "ilorin",        lat |-> QDec(8500000, 2),  lng |-> QDec(4550000, 2),
      irradiance |-> QDec(5100, 1), region |-> "middle_belt"],
     [name |-> "enugu",         lat |-> QDec(6450000, 2),  lng |-> QDec(7500000, 2),
      irradiance |-> QDec(4800, 1), region |-> "south"],
     [name |-> "sokoto",        lat |-> QDec(13066700, 2), lng |-> QDec(5233300, 2),
      irradiance |-> QDec(5700, 1), region |-> "north"] >>

\* NIGERIA_MONTHLY_FACTORS, in hundredths
NIGERIA_MONTHLY_FACTORS ==
  [m \in 1..12 |-> QDec(<<110, 112, 108, 95, 85, 80, 82, 85, 90, 100, 105, 108>>[m] * 10, 1)]

NIGERIA_ELECTRICITY_COST == QDec(150, 1)
NIGERIA_ELECTRICITY_COST_NAIRA == QInt(225)
NIGERIA_EMISSION_FACTOR == QDec(610, 1)
AVERAGE_HOME_CONSUMPTION == QInt(2400)

\* SolarEstimator.loss_factors, in the dict's order
loss_factors ==
  << [name |-> "soiling",      factor |-> QDec(970, 1)],
     [name |-> "shading",      factor |-> QDec(980, 1)],
     [name |-> "mismatch",     factor |-> QDec(980, 1)],
     [name |-> "wiring_dc",    factor |-> QDec(980, 1)],
     [name |-> "wiring_ac",    factor |-> QDec(990, 1)],
     [name |-> "inverter",     factor |-> QDec(960, 1)],
     [name |-> "age",          factor |-> QDec(995, 1)],
     [name |-> "availability", factor |-> QDec(990, 1)] >>

\* SolarEstimator.regional_adjustments
regional_adjustments ==
  [north       |-> [soiling |-> QDec(940, 1), temperature |-> QDec(920, 1)],
   south       |-> [soiling |-> QDec(960, 1), temperature |-> QDec(940, 1)],
   middle_belt |-> [soiling |-> QDec(950, 1), temperature |-> QDec(930, 1)],
   lagos       |-> [soiling |-> QDec(970, 1), temperature |-> QDec(950, 1)]]

(* --------------------------- optional values --------------------------- *)

\* Python's None, and a value that is not None
None == [some |-> FALSE]
Some(v) == [some |-> TRUE, v |-> v]

\* the outcome of a call: a returned value, or a raised exception
Return(v) == [exc |-> "none", v |-> v]
Raise(e) == [exc |-> e]

(* ------------------- rounding the double nearest p / q ------------------ *)

RECURSIVE LPow2(_)
LPow2(e) ==
  IF e <= 20 THEN LFromNat(2^e)
  ELSE LET h == LPow2(e - 20)
       IN  IF h = <<>> THEN h ELSE LMul(h, 2^20)

\* 2^j s, for j <= 60
LTimesPow2(s, j) ==
  IF j <= 20 THEN LMul(s, 2^j)
  ELSE IF j <= 40 THEN LMul(LMul(s, 2^20), 2^(j - 20))
  ELSE LMul(LMul(LMul(s, 2^20), 2^20), 2^(j - 40))

\* << s, 2 s, 4 s, ..., 2^n s >>
LDoubles(s, n) == [b \in 1..(n + 1) |-> LTimesPow2(s, b - 1)]

\* << 1, 2, 4, ..., 2^52 >>
Pow2Limbs == LDoubles(<<1>>, 52)

\* one step of the long division: the bit worth pb of the quotient is set if
\* pb s, which is sb, still fits in the remainder
LQuotBit(st, sb, pb) ==
  IF LCmp(sb, st.rem) <= 0
  THEN [rem |-> LSub(st.rem, sb), q |-> LAdd(st.q, pb)]
  ELSE st

RECURSIVE LQuotGroup(_, _, _, _)
\* n steps of the long division, from bit b - 1 of the quotient downwards
LQuotGroup(st, ss, b, n) ==
  IF n = 0 \/ b = 0 \/ st.rem = <<>> THEN st
  ELSE LQuotGroup(LQuotBit(st, ss[b], Pow2Limbs[b]), ss, b - 1, n - 1)

RECURSIVE LQuotBits(_, _, _)
\* the long division of st.rem by ss[1], for a quotient below 2^b: the quotient
\* added to st.q, and the remainder
LQuotBits(st, ss, b) ==
  IF b <= 0 \/ st.rem = <<>> THEN st
  ELSE LQuotBits(LQuotGroup(st, ss, b, 8), ss, b - 8)

RECURSIVE fl_coarse(_, _, _)
\* a times 2^8 as long as that stays below lo2, each time 8 added to k
fl_coarse(a, lo2, k) ==
  IF k >= 80 \/ LCmp(LMul(a, 256), lo2) >= 0 THEN [a |-> a, k |-> k]
  ELSE fl_coarse(LMul(a, 256), lo2, k + 8)

RECURSIVE fl_fine(_, _)
\* sc.a doubled until it reaches lo, each time 1 added to sc.k
fl_fine(sc, lo) ==
  IF sc.k >= 88 \/ LCmp(sc.a, lo) >= 0 THEN sc
  ELSE fl_fine([a |-> LMul(sc.a, 2), k |-> sc.k + 1], lo)

\* a * 2^k, and k, for the k that brings a * 2^k into [lo, 2 lo)
fl_scaled(a, lo) == fl_fine(fl_coarse(a, LMul(lo, 2), 0), lo)

\* fl(x) below, stage by stage: ss holds x.d, 2 x.d, ..., 2^52 x.d; the
\* exponent sc.k brings sc.a / x.d = |x| * 2^k into [2^52, 2^53); st holds the
\* significand floor(sc.a / x.d) and the remainder, which is compared with
\* one half
fl_nearest(m0, c) ==
  IF c > 0 \/ (c = 0 /\ At(m0, 1) % 2 = 1) THEN LAdd(m0, <<1>>) ELSE m0
fl_round(x, k, st) ==
  IF st.rem = <<>> THEN QMake(x.neg, st.q, LPow2(k))
  ELSE QMake(x.neg, fl_nearest(st.q, LCmp(LMul(st.rem, 2), x.d)), LPow2(k))
fl_quot(x, ss, sc) == fl_round(x, sc.k, LQuotBits([rem |-> sc.a, q |-> <<>>], ss, 53))
fl_scale(x, ss) == fl_quot(x, ss, fl_scaled(x.n, ss[53]))

\* the IEEE-754 double nearest to the rational x, ties to even, for
\* 2^(-28) <= |x| < 2^53 (or x = 0): the result of one float operation whose
\* exact result is x
fl(x) == IF QIsZero(x) THEN x ELSE fl_scale(x, LDoubles(x.d, 52))

\* fl_cmp below, stage by stage: the exponent e that brings P * 2^e / q into
\* [2^52, 2^53), and dv, the quotient and remainder of P * 2^e by q
fl_cmp_side(q, dv) ==
  IF dv.r = 0 THEN 0
  ELSE IF 2 * dv.r > q \/ (2 * dv.r = q /\ At(dv.q, 1) % 2 = 1) THEN 1 ELSE -1
fl_cmp_first(P, k, lo) ==
  /\ LCmp(LMulL(P, LPow2(k)), lo) >= 0
  /\ k > 0 => LCmp(LMulL(P, LPow2(k - 1)), lo) < 0
fl_cmp_quot(P, q, e) == fl_cmp_side(q, LDivRec(LMulL(P, LPow2(e)), q))
fl_cmp_scale(P, q, lo) == fl_cmp_quot(P, q, CHOOSE k \in 0..90 : fl_cmp_first(P, k, lo))

\* -1, 0, 1 as the IEEE-754 double nearest to p / q (naturals, 0 < p, 0 < q < 2 000 000,
\* p / q < 2^52) is below, equal to or above p / q: the 53-bit significand is
\* floor(p * 2^e / q) rounded to nearest, ties to even
fl_cmp(p, q) == fl_cmp_scale(LFromNat(p), q, LMul(LPow2(52), q))

\* py_round_div below, from the quotient low and the remainder rem of
\* |p| * 10^nd by q
py_round_up(low, c) == IF c > 0 \/ (c = 0 /\ low % 2 = 1) THEN low + 1 ELSE low
py_round_pick(p, q, low, rem) ==
  IF 2 * rem = q THEN py_round_up(low, fl_cmp(Abs(p), q))
  ELSE IF 2 * rem > q THEN low + 1 ELSE low
py_round_quot(p, q, dv) == py_round_pick(p, q, LToNat(LNorm(dv.q)), dv.r)

\* round(p / q, nd) for integers p and q > 0, where p / q is one float division:
\* the integer round(...) * 10^nd.  At an exact decimal tie the side the double
\* lies on decides; a double that is the tie itself goes to the even neighbour.
py_round_div(p, q, nd) ==
  Signed(p < 0, py_round_quot(p, q, LDivRec(LMul(LFromNat(Abs(p)), Pow10(nd)), q)))

(* ------------------------------ loss model ------------------------------ *)

RECURSIVE np_prod(_, _)
\* np.prod of the first k factors of the list
np_prod(factors, k) ==
  IF k = 0 THEN QInt(1)
  ELSE LET rest == np_prod(factors, k - 1)
       IN  IF QIsZero(rest) THEN rest ELSE QMul(rest, factors[k].factor)

\* the tilt factor without its floor
calculate_tilt_factor_unfloored(tilt_angle) ==
  QSub(QInt(1), QMul(QAbs(QSub(tilt_angle, QInt(15))), QDec(3, 1)))

\* calculate_tilt_factor(tilt_angle), optimal_tilt at its default 15
calculate_tilt_factor(tilt_angle) ==
  LET optimal_tilt == QInt(15)
      tilt_diff == QAbs(QSub(tilt_angle, optimal_tilt))
  IN  QMax(QDec(850, 1), QSub(QInt(1), QMul(tilt_diff, QDec(3, 1))))

\* an unknown region given the adjustments of the default region, middle_belt
region_get_middle_belt(region, key) ==
  IF region \in DOMAIN regional_adjustments
  THEN regional_adjustments[region][key]
  ELSE regional_adjustments["middle_belt"][key]

\* regional_adjustments.get(region, {}).get(key, 1.0)
region_get(region, key) ==
  IF region \in DOMAIN regional_adjustments
  THEN regional_adjustments[region][key]
  ELSE QInt(1)

\* if has_battery: total_loss *= 0.92
battery_loss(total_loss, has_battery) ==
  IF has_battery THEN QMul(total_loss, QDec(920, 1)) ELSE total_loss

calculate_total_losses(region, panel_tilt, has_battery) ==
  LET base     == np_prod(loss_factors, Len(loss_factors))
      regional == QMul(QMul(base, region_get(region, "soiling")),
                       region_get(region, "temperature"))
      tilted   == QMul(regional, calculate_tilt_factor(panel_tilt))
  IN  battery_loss(tilted, has_battery)

(* ---------------------------- energy estimator -------------------------- *)

\* the energy with the efficiency capped at 0.25
calculate_solar_potential_capped_efficiency(irradiance, area, efficiency, region, panel_tilt, has_battery, current_month) ==
  QMul(QMul(QMul(QMul(QMul(irradiance, area),
                      IF QLe(efficiency, QDec(250, 1)) THEN efficiency ELSE QDec(250, 1)),
                 calculate_total_losses(region, panel_tilt, has_battery)),
            QInt(365)),
       IF current_month \in DOMAIN NIGERIA_MONTHLY_FACTORS
       THEN NIGERIA_MONTHLY_FACTORS[current_month] ELSE QInt(1))

\* calculate_solar_potential; current_month is what datetime.now().month reads
calculate_solar_potential(irradiance, area, efficiency, region, panel_tilt, has_battery, current_month) ==
  LET total_system_loss == calculate_total_losses(region, panel_tilt, has_battery)
      daily_energy  == QMul(QMul(QMul(irradiance, area), efficiency), total_system_loss)
      annual_energy == QMul(daily_energy, QInt(365))
      seasonal_factor == IF current_month \in DOMAIN NIGERIA_MONTHLY_FACTORS
                         THEN NIGERIA_MONTHLY_FACTORS[current_month]
                         ELSE QInt(1)
  IN  QMul(annual_energy, seasonal_factor)

\* the seasonal factor of line 279
seasonal_factor_of(current_month) ==
  IF current_month \in DOMAIN NIGERIA_MONTHLY_FACTORS
  THEN NIGERIA_MONTHLY_FACTORS[current_month]
  ELSE QInt(1)

\* x * y in double arithmetic
float_mul(x, y) == fl(QMul(x, y))

\* lines 273-280 in double arithmetic, every product rounded to the nearest
\* double as it is formed, from left to right; the arguments are doubles
solar_potential_double(irradiance, area, efficiency, total_system_loss, seasonal_factor) ==
  float_mul(float_mul(float_mul(float_mul(float_mul(irradiance, area), efficiency),
                                total_system_loss),
                      QInt(365)),
            seasonal_factor)

\* the double calculate_solar_potential returns for the doubles nearest its
\* arguments, the loss and the seasonal factor
calculate_solar_potential_double(irradiance, area, efficiency, region, panel_tilt, has_battery, current_month) ==
  solar_potential_double(fl(irradiance), fl(area), fl(efficiency),
                         fl(calculate_total_losses(region, panel_tilt, has_battery)),
                         fl(seasonal_factor_of(current_month)))

(* --------------------------- benefits, finance -------------------------- *)

\* calculate_nigerian_benefits: every field is the rounded value times 10^digits
nigerian_benefits_of(energy_kwh, carbon_offset_tons) ==
  LET annual_savings_usd   == QMul(energy_kwh, NIGERIA_ELECTRICITY_COST)
      annual_savings_naira == QMul(energy_kwh, NIGERIA_ELECTRICITY_COST_NAIRA)
      equivalent_homes     == QDiv(energy_kwh, AVERAGE_HOME_CONSUMPTION)
      equivalent_trees     == QDiv(carbon_offset_tons, QDec(21770, 2))
  IN  [carbon_offset_tons   |-> QRound(carbon_offset_tons, 1),
       annual_savings_usd   |-> QRound(annual_savings_usd, 0),
       annual_savings_naira |-> QRound(annual_savings_naira, 0),
       equivalent_homes     |-> QRound(equivalent_homes, 1),
       equivalent_trees     |-> QRound(equivalent_trees, 0)]

calculate_nigerian_benefits(energy_kwh) ==
  nigerian_benefits_of(energy_kwh,
                       QDiv(QMul(energy_kwh, NIGERIA_EMISSION_FACTOR), QInt(1000)))

\* one pass of the loop of lines 301-307: year_energy is annual_energy_kwh
\* times (1 - degradation_rate) ** (year - 1), the power kept from year to year
next_year(annual_energy_kwh, sofar) ==
  [total  |-> QAdd(sofar.total, QMul(annual_energy_kwh, sofar.factor)),
   factor |-> QMul(sofar.factor, QSub(QInt(1), QDec(5, 1)))]

RECURSIVE energy_over(_, _, _)
\* sofar after `years` more passes of the loop (a factor of 0 adds nothing
\* in any later pass)
energy_over(annual_energy_kwh, years, sofar) ==
  IF years = 0 \/ QIsZero(sofar.factor) THEN sofar
  ELSE energy_over(annual_energy_kwh, years - 1, next_year(annual_energy_kwh, sofar))

\* total_25yr_energy after the loop has run for year = 1 .. years
total_25yr(annual_energy_kwh, years) ==
  energy_over(annual_energy_kwh, years, [total |-> QInt(0), factor |-> QInt(1)]).total

\* the guard of simple_payback (line 298): annual_savings > 0
payback_guard(annual_savings) == QPos(annual_savings)

\* the division by system_cost made whatever the cost
roi_unguarded(system_cost) == TRUE

\* the guard of roi_percentage (line 311): system_cost > 0
roi_guard(system_cost) == QPos(system_cost)

\* calculate_financial_analysis: a division whose divisor is zero raises
\* lines 298-316, from annual_savings and total_25yr_savings
financial_analysis_of(system_cost, annual_savings, total_25yr_savings, payback_divides, roi_divides) ==
  LET simple_payback == IF payback_divides
                        THEN QDiv(system_cost, annual_savings)
                        ELSE QInt(0)
      roi_percentage == IF roi_divides
                        THEN QMul(QDiv(QSub(total_25yr_savings, system_cost), system_cost),
                                  QInt(100))
                        ELSE QInt(0)
  IN  IF \/ payback_divides /\ QIsZero(annual_savings)
         \/ roi_divides /\ QIsZero(system_cost)
      THEN Raise("ZeroDivisionError")
      ELSE Return([simple_payback_years         |-> QRound(simple_payback, 1),
                   total_25year_savings_usd     |-> QRound(total_25yr_savings, 0),
                   return_on_investment_percent |-> QRound(roi_percentage, 1),
                   system_cost_usd              |-> system_cost])

annual_savings_of(annual_energy_kwh) == QMul(annual_energy_kwh, NIGERIA_ELECTRICITY_COST)

calculate_financial_analysis(annual_energy_kwh, system_cost) ==
  LET total_25yr_energy == total_25yr(annual_energy_kwh, 25)
  IN  financial_analysis_of(system_cost,
                            annual_savings_of(annual_energy_kwh),
                            QMul(total_25yr_energy, NIGERIA_ELECTRICITY_COST),
                            payback_guard(annual_savings_of(annual_energy_kwh)),
                            roi_guard(system_cost))

\* calculate_advanced_benefits: benefits.update(financials) adds the four keys
benefits_update(benefits, financials) ==
  IF financials.exc # "none" THEN financials ELSE Return(financials.v @@ benefits)

calculate_advanced_benefits(energy_kwh, system_cost, include_financial) ==
  IF include_financial /\ QPos(system_cost)
  THEN benefits_update(calculate_nigerian_benefits(energy_kwh),
                       calculate_financial_analysis(energy_kwh, system_cost))
  ELSE Return(calculate_nigerian_benefits(energy_kwh))

(* ------------------------------- sizing --------------------------------- *)

\* the double written 0.85 and the double written 1.8
usable_fraction == fl(QDec(850, 1))
panel_area == fl(QDec(1800, 1))

\* the panels counted on the whole area, the usable fraction forgotten
\* lines 345-352, from usable_area and estimated_panels
panel_estimate_of(area, panel_watts, usable_area, estimated_panels) ==
  IF QIsZero(area) THEN Raise("ZeroDivisionError")
  ELSE Return([estimated_panels |-> estimated_panels,
               system_size_kw   |-> py_round_div(estimated_panels * panel_watts, 1000, 1),
               panel_watts      |-> panel_watts,
               coverage_ratio   |-> QRound(fl(QDiv(usable_area, area)), 2)])

\* line 344: math.floor(usable_area / panel_area_sq_m)
estimated_panels_of(area, panel_watts, usable_area, panel_area_sq_m) ==
  panel_estimate_of(area, panel_watts, usable_area,
                    QFloor(fl(QDiv(usable_area, panel_area_sq_m))))

estimate_panel_count_whole_area(area, panel_watts) ==
  panel_estimate_of(area, panel_watts, fl(QMul(area, usable_fraction)),
                    QFloor(fl(QDiv(area, panel_area))))

\* estimate_panel_count(area, panel_watts), each product and quotient rounded
\* to a double as the code computes it (math.floor magnifies that rounding to
\* a whole panel); area = 0 divides by zero in coverage_ratio
estimate_panel_count(area, panel_watts) ==
  estimated_panels_of(area, panel_watts, fl(QMul(area, usable_fraction)), panel_area)

(* -------------------------- irradiance resolver ------------------------ *)

\* the comparison with <= in the place of <
distance_le(distance, min_distance) ==
  IF min_distance.some THEN QLe(distance, min_distance.v) ELSE TRUE

\* the comparison of line 227, distance < min_distance; min_distance starts at
\* float('inf'), which every distance is below
distance_lt(distance, min_distance) ==
  IF min_distance.some THEN QLt(distance, min_distance.v) ELSE TRUE

\* the square of the distance of line 225 (math.sqrt is increasing, so the
\* squares compare as the distances do)
distance_sq(lat, lon, city_data) ==
  QAdd(QMul(QSub(lat, city_data.lat), QSub(lat, city_data.lat)),
       QMul(QSub(lon, city_data.lng), QSub(lon, city_data.lng)))

\* lines 227-229: city k, at this distance, against the closest before it
closer(k, distance, before) ==
  IF distance_lt(distance, before.min_distance)
  THEN [closest_city |-> Some(k), min_distance |-> Some(distance)]
  ELSE before

RECURSIVE closest_scan(_, _, _)
\* closest_city and min_distance after the loop has visited the first k cities
closest_scan(lat, lon, k) ==
  IF k = 0 THEN [closest_city |-> None, min_distance |-> None]
  ELSE closer(k, distance_sq(lat, lon, NIGERIA_SOLAR_DATA[k]),
              closest_scan(lat, lon, k - 1))

\* lines 231-239: the irradiance of closest_city, or the default 5.0
cached_of(scan) ==
  IF scan.closest_city.some
  THEN [irradiance   |-> NIGERIA_SOLAR_DATA[scan.closest_city.v].irradiance,
        closest_city |-> scan.closest_city.v]
  ELSE [irradiance |-> QInt(5), closest_city |-> 0]

\* _get_cached_nigerian_irradiance, with the city it settled on (an index into
\* NIGERIA_SOLAR_DATA; 0 when closest_city stayed None)
get_cached_nigerian_irradiance(lat, lon) ==
  cached_of(closest_scan(lat, lon, Len(NIGERIA_SOLAR_DATA)))

\* Outcomes of requests.get and of reading the response.  A sample of the
\* ALLSKY_SFC_SW_DWN mapping is null, a number or (malformed) a string.
Null == [t |-> "null"]
Num(v) == [t |-> "num", v |-> v]
JStr(s) == [t |-> "str", s |-> s]
JBool(b) == [t |-> "bool", b |-> b]
Str == JStr("n/a")

RECURSIVE not_none(_)
\* [v for v in ... if v is not None]
not_none(samples) ==
  IF samples = <<>> THEN <<>>
  ELSE IF Head(samples).t = "null" THEN not_none(Tail(samples))
  ELSE <<Head(samples)>> \o not_none(Tail(samples))

RECURSIVE py_sum(_)
py_sum(values) ==
  IF values = <<>> THEN QInt(0) ELSE QAdd(Head(values).v, py_sum(Tail(values)))

\* the status test of line 194
status_ok(status_code) == status_code = 200

\* the try block of _try_nasa_api under outcome o (lines 178-203): the value it
\* returns, Return(None) when it runs off its end, or the exception it raises
nasa_try_block(o) ==
  IF o.kind # "response" THEN Raise(o.kind)
  ELSE IF ~status_ok(o.status_code) THEN Return(None)
  ELSE IF o.body.json = "not_json" THEN Raise("ValueError")
  ELSE IF o.body.json = "no_key" THEN Raise("KeyError")
  ELSE LET values == not_none(o.body.samples)
       IN  IF values = <<>> THEN Return(None)
           ELSE IF \E i \in 1..Len(values) : values[i].t = "str" THEN Raise("TypeError")
           ELSE Return(Some(QDiv(py_sum(values), QInt(Len(values)))))

\* the classes an exception is an instance of
exc_classes(e) ==
  IF e \in {"Timeout", "ConnectionError"} THEN {e, "RequestException", "Exception"}
  ELSE {e, "Exception"}

\* the clauses without the last one, except Exception
requests_except_clauses == {"Timeout", "ConnectionError", "RequestException"}

\* the except clauses of lines 205-213
nasa_except_clauses == {"Timeout", "ConnectionError", "RequestException", "Exception"}

\* the outcome r of the try block after the except clauses
nasa_except(r) ==
  IF r.exc = "none" THEN r
  ELSE IF exc_classes(r.exc) \cap nasa_except_clauses # {} THEN Return(None)
  ELSE r

\* _try_nasa_api: a caught exception is logged and None is returned (line 215)
try_nasa_api(o) == nasa_except(nasa_try_block(o))

\* lines 167-172: nasa_data if it is not None, the cached value otherwise
nasa_or_cached(lat, lon, nasa_data) ==
  IF nasa_data.exc # "none" THEN nasa_data
  ELSE IF nasa_data.v.some
  THEN Return([irradiance |-> nasa_data.v.v, source |-> "nasa"])
  ELSE Return([irradiance |-> get_cached_nigerian_irradiance(lat, lon).irradiance,
               source |-> "cached"])

\* get_nigerian_solar_irradiance under outcome o of the one query it makes:
\* source tells which return statement produced the value
get_nigerian_solar_irradiance(lat, lon, o) == nasa_or_cached(lat, lon, try_nasa_api(o))

(* --------------------------- request payloads -------------------------- *)
(* request.json is None (no JSON body) or a mapping from the keys the      *)
(* client sent to JSON values; a key the client left out is not in the     *)
(* mapping's domain.  Every string of the model is a non-numeric one.      *)

\* float(v)
py_float(v) ==
  IF v.t = "num" THEN Return(v.v)
  ELSE IF v.t = "bool" THEN Return(QInt(IF v.b THEN 1 ELSE 0))
  ELSE IF v.t = "str" THEN Raise("ValueError")
  ELSE Raise("TypeError")

\* int(v): a float is truncated towards zero
py_int(v) ==
  IF v.t = "num"
  THEN Return(IF v.v.neg THEN -LQuot(v.v.n, v.v.d) ELSE LQuot(v.v.n, v.v.d))
  ELSE IF v.t = "bool" THEN Return(IF v.b THEN 1 ELSE 0)
  ELSE IF v.t = "str" THEN Raise("ValueError")
  ELSE Raise("TypeError")

\* data[key]
get_item(data, key) ==
  IF ~data.some THEN Raise("TypeError")
  ELSE IF key \in DOMAIN data.v THEN Return(data.v[key])
  ELSE Raise("KeyError")

\* data.get(key, default)
get_default(data, key, default) ==
  IF ~data.some THEN Raise("AttributeError")
  ELSE IF key \in DOMAIN data.v THEN Return(data.v[key])
  ELSE Return(default)

\* float(...) of a lookup that may itself have raised
float_of(raw) == IF raw.exc # "none" THEN raw ELSE py_float(raw.v)

\* float(data[key])
float_item(data, key) == float_of(get_item(data, key))

\* float(data.get(key, default))
float_get(data, key, default) == float_of(get_default(data, key, Num(default)))

\* the first exception among the calls rs, made in this order ("none" if none)
RECURSIVE first_exc(_)
first_exc(rs) ==
  IF rs = <<>> THEN "none"
  ELSE IF Head(rs).exc # "none" THEN Head(rs).exc
  ELSE first_exc(Tail(rs))

\* only the coordinates converted before the estimation, the optional fields
\* left at their defaults
coordinates_only(lat, lng) ==
  LET e == first_exc(<<lat, lng>>)
  IN  IF e # "none" THEN Raise(e)
      ELSE Return([lat |-> lat.v, lng |-> lng.v, area |-> QInt(20),
                   efficiency |-> QDec(180, 1), panel_tilt |-> QInt(15),
                   region |-> "middle_belt", has_battery |-> FALSE,
                   system_cost |-> QInt(0)])

solar_parse_coordinates_only(data) ==
  coordinates_only(float_item(data, "latitude"), float_item(data, "longitude"))

\* the locals of solar_estimate after lines 527-534, or the first exception
\* those lines raise
solar_locals(lat, lng, area, efficiency, panel_tilt, region, has_battery, system_cost) ==
  LET e == first_exc(<<lat, lng, area, efficiency, panel_tilt, region, has_battery,
                       system_cost>>)
  IN  IF e # "none" THEN Raise(e)
      ELSE Return([lat |-> lat.v, lng |-> lng.v, area |-> area.v,
                   efficiency |-> efficiency.v, panel_tilt |-> panel_tilt.v,
                   region |-> region.v.s, has_battery |-> has_battery.v.b,
                   system_cost |-> system_cost.v])

\* lines 526-534 of solar_estimate
solar_parse(data) ==
  solar_locals(float_item(data, "latitude"),
               float_item(data, "longitude"),
               float_get(data, "area", QInt(20)),
               float_get(data, "efficiency", QDec(180, 1)),
               float_get(data, "panel_tilt", QInt(15)),
               get_default(data, "region", JStr("middle_belt")),
               get_default(data, "has_battery", JBool(FALSE)),
               float_get(data, "system_cost", QInt(0)))

\* the locals of advanced_solar_analysis after lines 644-649, or the first
\* exception those lines raise
advanced_locals(lat, lng, area, system_cost, panel_tilt, region) ==
  LET e == first_exc(<<lat, lng, area, system_cost, panel_tilt, region>>)
  IN  IF e # "none" THEN Raise(e)
      ELSE Return([lat |-> lat.v, lng |-> lng.v, area |-> area.v,
                   system_cost |-> system_cost.v, panel_tilt |-> panel_tilt.v,
                   region |-> region.v.s])

\* lines 643-649 of advanced_solar_analysis
advanced_parse(data) ==
  advanced_locals(float_item(data, "latitude"),
                  float_item(data, "longitude"),
                  float_get(data, "area", QInt(20)),
                  float_get(data, "system_cost", QInt(5000)),
                  float_get(data, "panel_tilt", QInt(15)),
                  get_default(data, "region", JStr("middle_belt")))

\* the failure body returned without its status: jsonify({...}) alone
error_response_without_status(e) ==
  [status |-> 200, body |-> [success |-> FALSE, error |-> e]]

\* the except clause of the three handlers (lines 581-583, 672-674, 709-710):
\* jsonify({'success': False, 'error': str(e)}), 400
error_response(e) == [status |-> 400, body |-> [success |-> FALSE, error |-> e]]

\* flask-login's answer to a request that is not logged in (login_view is set)
login_redirect == [status |-> 302, body |-> [redirect |-> "login_page"]]

\* the response of lines 555-573 and 579
solar_response(l) ==
  [status |-> 200,
   body |-> [success |-> TRUE,
             data_source |-> l.data_source,
             location |-> [lat |-> l.lat, lng |-> l.lng, region |-> l.region],
             solar_data |->
               [daily_irradiance |-> QRound(l.irradiance, 2),
                annual_energy_kwh |-> QRound(l.annual_energy, 0),
                monthly_energy_kwh |-> QRound(QDiv(l.annual_energy, QInt(12)), 0),
                system_performance_ratio |->
                  QRound(calculate_total_losses(l.region, l.panel_tilt, l.has_battery), 3)],
             benefits |-> l.benefits,
             system_size |-> l.panel_estimation,
             calculation_parameters |->
               [panel_tilt |-> l.panel_tilt, efficiency |-> l.efficiency,
                has_battery |-> l.has_battery, area_sq_m |-> l.area]]]

\* the response of lines 662-670
advanced_response(l) ==
  [status |-> 200,
   body |-> [success |-> TRUE,
             financial_analysis |-> l.financials,
             system_design |-> l.panel_estimation,
             energy_production |-> QRound(l.annual_energy, 0),
             irradiance |-> QRound(l.irradiance, 2)]]

\* load_factors.get(backup_priority, 0.3) of lines 688-694
load_factor_of(backup_priority) ==
  LET load_factors == [essential |-> QDec(300, 1), partial |-> QDec(600, 1),
                       whole_house |-> QInt(1)]
  IN  IF backup_priority \in DOMAIN load_factors
      THEN load_factors[backup_priority]
      ELSE QDec(300, 1)

\* the body of battery_calculation (lines 682-707)
battery_handler(data) ==
  LET daily_energy    == float_get(data, "daily_energy", QInt(10))
      autonomy_raw    == get_default(data, "autonomy_days", Num(QInt(1)))
      autonomy_days   == IF autonomy_raw.exc # "none" THEN autonomy_raw
                         ELSE py_int(autonomy_raw.v)
      backup_priority == get_default(data, "backup_priority", JStr("essential"))
      e == first_exc(<<daily_energy, autonomy_days, backup_priority>>)
      load_factor   == load_factor_of(backup_priority.v.s)
      usable_energy == QMul(QMul(daily_energy.v, load_factor), QInt(autonomy_days.v))
      battery_capacity_kwh == QDiv(usable_energy, QDec(850, 1))
  IN  IF e # "none" THEN error_response(e)
      ELSE [status |-> 200,
            body |-> [success |-> TRUE,
                      battery_analysis |->
                        [required_capacity_kwh |-> QRound(battery_capacity_kwh, 1),
                         autonomy_days |-> autonomy_days.v,
                         backup_priority |-> backup_priority.v.s,
                         usable_energy_kwh |-> QRound(usable_energy, 1),
                         estimated_cost_usd |->
                           QRound(QMul(battery_capacity_kwh, QInt(300)), 0)]]]

\* the list literal of nigerian_cities (lines 624-633), in its order
cities ==
  << [name |-> "Lagos",         lat |-> QDec(6524400, 2),  lng |-> QDec(3379200, 2)],
     [name |-> "Abuja",         lat |-> QDec(9057900, 2),  lng |-> QDec(7495100, 2)],
     [name |-> "Kano",          lat |-> QDec(12002200, 2), lng |-> QDec(8592000, 2)],
     [name |-> "Ibadan",        lat |-> QDec(7377600, 2),  lng |-> QDec(3947000, 2)],
     [name |-> "Port Harcourt", lat |-> QDec(4815600, 2),  lng |-> QDec(7049800, 2)],
     [name |-> "Benin City",    lat |-> QDec(6335000, 2),  lng |-> QDec(5603700, 2)],
     [name |-> "Kaduna",        lat |-> QDec(10510500, 2), lng |-> QDec(7416500, 2)],
     [name |-> "Maiduguri",     lat |-> QDec(11833300, 2), lng |-> QDec(13150000, 2)] >>

\* nigerian_cities (lines 622-634): jsonify(cities), whatever the request holds
nigerian_cities == [status |-> 200, body |-> cities]

(* ------------------------------ environment ---------------------------- *)

\* the longest ALLSKY_SFC_SW_DWN mapping the remote source answers with
MaxSamples == 2

Samples == {Null, Num(QDec(4200, 1)), Num(QDec(5400, 1)), Str}
Bodies ==
  {[json |-> "not_json", samples |-> <<>>], [json |-> "no_key", samples |-> <<>>]}
    \cup {[json |-> "ok", samples |-> v] :
            v \in UNION {[1..k -> Samples] : k \in 0..MaxSamples}}

\* what an answer with another status than 200 carries: an error page, or
\* as good a body as any
ErrorStatusCodes == {404, 500}
ErrorBodies ==
  {[json |-> "not_json", samples |-> <<>>],
   [json |-> "ok", samples |-> <<Num(QDec(5400, 1))>>]}

\* what one requests.get can end in
RemoteOutcomes ==
  {[kind |-> k] : k \in {"Timeout", "ConnectionError", "RequestException"}}
    \cup {[kind |-> "response", status_code |-> 200, body |-> b] : b \in Bodies}
    \cup {[kind |-> "response", status_code |-> c, body |-> b] :
            c \in ErrorStatusCodes, b \in ErrorBodies}

\* the months datetime.now().month reads in the model: a wet-season month and
\* the month whose factor is 1.00
Months == {6, 10}

\* db.session.commit() of log_analytics succeeds or raises
DbOutcomes == {"ok", "OperationalError"}

\* the mapping of the keys the client sent, from one optional value per key
Payload(c) == Some([k \in {x \in DOMAIN c : c[x].some} |-> c[k].v])

NoJson == None
LagosLat == QDec(6524400, 2)
LagosLng == QDec(3379200, 2)

SolarPayloads ==
  {NoJson} \cup
  {Payload([latitude |-> a, longitude |-> b, area |-> c, efficiency |-> d,
            region |-> f, system_cost |-> h]) :
     a \in {None, Some(JStr("abc")), Some(Num(LagosLat))},
     b \in {None, Some(JStr("abc")), Some(Num(LagosLng))},
     c \in {None, Some(JStr("abc")), Some(Num(QInt(20))), Some(Num(QInt(0))),
            Some(Num(QInt(-20)))},
     d \in {None, Some(JStr("abc"))},
     f \in {None, Some(JStr("mars"))},
     h \in {None, Some(Num(QInt(5000)))}}

AdvancedPayloads ==
  {NoJson} \cup
  {Payload([latitude |-> a, longitude |-> b, area |-> c, system_cost |-> h,
            panel_tilt |-> e]) :
     a \in {None, Some(Num(LagosLat))},
     b \in {Some(JStr("abc")), Some(Num(LagosLng))},
     c \in {None, Some(Num(QInt(20))), Some(Num(QInt(0)))},
     h \in {None, Some(JStr("abc")), Some(Num(QInt(0))), Some(Num(QInt(-100)))},
     e \in {None, Some(Num(QInt(70)))}}

BatteryPayloads ==
  {NoJson} \cup
  {Payload([daily_energy |-> a, autonomy_days |-> b, backup_priority |-> c]) :
     a \in {None, Some(JStr("abc")), Some(Num(QDec(12500, 1)))},
     b \in {None, Some(JStr("two")), Some(Num(QInt(2)))},
     c \in {None, Some(JStr("essential")), Some(JStr("partial")),
            Some(JStr("whole_house")), Some(JStr("luxury"))}}

(* -------------------------------- state -------------------------------- *)

VARIABLES
  pc,                \* where the handler of the request stands
  endpoint,          \* the route the request came to
  authenticated,     \* current_user.is_authenticated
  data,              \* request.json
  locals,            \* the handler's local variables assigned so far
  remote_queries,    \* how many requests.get the request has issued
  fallback_lookups,  \* how many times the cached table was searched
  response,          \* the response sent, None before
  responses,         \* how many responses the request was given
  analytics,         \* the Analytics rows committed
  call,              \* a library function called on its own: name and arguments
  ret                \* its outcome, None before it returns

vars == <<pc, endpoint, authenticated, data, locals, remote_queries, fallback_lookups,
          response, responses, analytics, call, ret>>

handler_vars == <<pc, endpoint, authenticated, data, locals, remote_queries,
                  fallback_lookups, response, responses, analytics>>

\* no local variable is assigned yet
NoLocals == [k \in {} |-> k]

Idle ==
  /\ pc = "idle" /\ endpoint = "none" /\ authenticated = FALSE /\ data = None
  /\ locals = NoLocals /\ remote_queries = 0 /\ fallback_lookups = 0
  /\ response = None /\ responses = 0 /\ analytics = <<>>

Init == Idle /\ call = None /\ ret = None

\* the handler's except clause runs: the request is answered with the failure
Fail(e) ==
  /\ response' = Some(error_response(e))
  /\ responses' = responses + 1
  /\ pc' = "done"

Receive(route, d, a, first) ==
  /\ pc = "idle"
  /\ endpoint' = route /\ data' = d /\ authenticated' = a
  /\ pc' = first
  /\ UNCHANGED <<locals, remote_queries, fallback_lookups, response, responses,
                 analytics, call, ret>>

\* @login_required turns away a request that is not logged in
Unauthorized(route, d) ==
  /\ pc = "idle"
  /\ endpoint' = route /\ data' = d /\ authenticated' = FALSE
  /\ response' = Some(login_redirect)
  /\ responses' = responses + 1
  /\ pc' = "done"
  /\ UNCHANGED <<locals, remote_queries, fallback_lookups, analytics, call, ret>>

(* ---------------------------- solar_estimate --------------------------- *)

SolarReceive ==
  \E d \in SolarPayloads, a \in BOOLEAN :
    Receive("solar_estimate", d, a, "solar_parse")

\* the handler goes on with the locals r holds, or fails with what r raises
Parsed(r, next) ==
  IF r.exc # "none"
  THEN Fail(r.exc) /\ UNCHANGED locals
  ELSE /\ locals' = r.v
       /\ pc' = next
       /\ UNCHANGED <<response, responses>>

\* lines 526-534
SolarParse ==
  /\ pc = "solar_parse"
  /\ Parsed(solar_parse(data), "solar_resolve")
  /\ UNCHANGED <<endpoint, authenticated, data, remote_queries, fallback_lookups,
                 analytics, call, ret>>

\* line 537 (solar_estimate) and line 652 (advanced_solar_analysis)
Resolved(r, next) ==
  /\ remote_queries' = remote_queries + 1
  /\ IF r.exc # "none"
     THEN Fail(r.exc) /\ UNCHANGED <<locals, fallback_lookups>>
     ELSE /\ locals' = [irradiance |-> r.v.irradiance,
                        irradiance_source |-> r.v.source] @@ locals
          /\ fallback_lookups' =
               fallback_lookups + (IF r.v.source = "cached" THEN 1 ELSE 0)
          /\ pc' = next
          /\ UNCHANGED <<response, responses>>

Resolve(at, next) ==
  /\ pc = at
  /\ \E o \in RemoteOutcomes :
       Resolved(get_nigerian_solar_irradiance(locals.lat, locals.lng, o), next)
  /\ UNCHANGED <<endpoint, authenticated, data, analytics, call, ret>>

SolarResolve == Resolve("solar_resolve", "solar_compute")

\* line 543
include_financial(system_cost) == QPos(system_cost)

\* lines 538-549
SolarComputed(month, annual_energy, benefits, panel_estimation) ==
  IF benefits.exc # "none"
  THEN Fail(benefits.exc) /\ UNCHANGED locals
  ELSE IF panel_estimation.exc # "none"
  THEN Fail(panel_estimation.exc) /\ UNCHANGED locals
  ELSE /\ locals' = [current_month |-> month,
                     annual_energy |-> annual_energy,
                     benefits |-> benefits.v,
                     panel_estimation |-> panel_estimation.v] @@ locals
       /\ pc' = "solar_tag"
       /\ UNCHANGED <<response, responses>>

\* lines 544-549, from annual_energy
SolarSized(month, annual_energy) ==
  SolarComputed(month, annual_energy,
                calculate_advanced_benefits(annual_energy, locals.system_cost,
                                            include_financial(locals.system_cost)),
                estimate_panel_count(locals.area, 450))

SolarCompute ==
  /\ pc = "solar_compute"
  /\ \E month \in Months :
       SolarSized(month,
                  calculate_solar_potential(
                    locals.irradiance, locals.area, locals.efficiency,
                    locals.region, locals.panel_tilt, locals.has_battery, month))
  /\ UNCHANGED <<endpoint, authenticated, data, remote_queries, fallback_lookups,
                 analytics, call, ret>>

\* lines 552-553: the data-source tag comes from a query of its own
data_source_of(nasa_data) == IF nasa_data.some THEN "nasa_api" ELSE "cached_data"

Tagged(r) ==
  /\ remote_queries' = remote_queries + 1
  /\ IF r.exc # "none"
     THEN Fail(r.exc) /\ UNCHANGED locals
     ELSE /\ locals' = [data_source |-> data_source_of(r.v)] @@ locals
          /\ pc' = "solar_respond"
          /\ UNCHANGED <<response, responses>>

SolarTag ==
  /\ pc = "solar_tag"
  /\ \E o \in RemoteOutcomes : Tagged(try_nasa_api(o))
  /\ UNCHANGED <<endpoint, authenticated, data, fallback_lookups, analytics, call, ret>>

\* lines 555-579: the response is built, the calculation is logged for a
\* logged-in user (log_analytics commits a row, db is how the commit ends),
\* the response is returned
Responded(db) ==
  IF authenticated /\ db # "ok"
  THEN Fail(db) /\ UNCHANGED analytics
  ELSE /\ analytics' =
            IF authenticated
            THEN Append(analytics,
                        [event_type |-> "solar_calculation",
                         data |-> [lat |-> locals.lat, lng |-> locals.lng,
                                   area |-> locals.area, region |-> locals.region]])
            ELSE analytics
       /\ response' = Some(solar_response(locals))
       /\ responses' = responses + 1
       /\ pc' = "done"

SolarRespond ==
  /\ pc = "solar_respond"
  /\ \E db \in DbOutcomes : Responded(db)
  /\ UNCHANGED <<endpoint, authenticated, data, locals, remote_queries,
                 fallback_lookups, call, ret>>

(* ------------------------ advanced_solar_analysis ---------------------- *)

AdvancedReceive ==
  \E d \in AdvancedPayloads : Receive("advanced_solar", d, TRUE, "advanced_parse")

AdvancedUnauthorized ==
  \E d \in AdvancedPayloads : Unauthorized("advanced_solar", d)

\* lines 643-649
AdvancedParse ==
  /\ pc = "advanced_parse"
  /\ Parsed(advanced_parse(data), "advanced_resolve")
  /\ UNCHANGED <<endpoint, authenticated, data, remote_queries, fallback_lookups,
                 analytics, call, ret>>

AdvancedResolve == Resolve("advanced_resolve", "advanced_compute")

\* lines 653-670
AdvancedComputed(month, annual_energy, financials, panel_estimation) ==
  IF financials.exc # "none"
  THEN Fail(financials.exc) /\ UNCHANGED locals
  ELSE IF panel_estimation.exc # "none"
  THEN Fail(panel_estimation.exc) /\ UNCHANGED locals
  ELSE /\ locals' = [current_month |-> month,
                     annual_energy |-> annual_energy,
                     financials |-> financials.v,
                     panel_estimation |-> panel_estimation.v] @@ locals
       /\ response' = Some(advanced_response(locals'))
       /\ responses' = responses + 1
       /\ pc' = "done"

\* lines 658-660, from annual_energy
AdvancedSized(month, annual_energy) ==
  AdvancedComputed(month, annual_energy,
                   calculate_financial_analysis(annual_energy, locals.system_cost),
                   estimate_panel_count(locals.area, 450))

AdvancedCompute ==
  /\ pc = "advanced_compute"
  /\ \E month \in Months :
       AdvancedSized(month,
                     calculate_solar_potential(
                       locals.irradiance, locals.area, QDec(180, 1),
                       locals.region, locals.panel_tilt, FALSE, month))
  /\ UNCHANGED <<endpoint, authenticated, data, remote_queries, fallback_lookups,
                 analytics, call, ret>>

(* --------------------------- battery_calculation ----------------------- *)

BatteryReceive ==
  \E d \in BatteryPayloads : Receive("battery_calc", d, TRUE, "battery_run")

BatteryUnauthorized ==
  \E d \in BatteryPayloads : Unauthorized("battery_calc", d)

\* lines 681-710
BatteryRun ==
  /\ pc = "battery_run"
  /\ response' = Some(battery_handler(data))
  /\ responses' = responses + 1
  /\ pc' = "done"
  /\ UNCHANGED <<endpoint, authenticated, data, locals, remote_queries,
                 fallback_lookups, analytics, call, ret>>

Next ==
  \/ SolarReceive \/ SolarParse \/ SolarResolve \/ SolarCompute \/ SolarTag
  \/ SolarRespond
  \/ AdvancedReceive \/ AdvancedUnauthorized \/ AdvancedParse \/ AdvancedResolve
  \/ AdvancedCompute
  \/ BatteryReceive \/ BatteryUnauthorized \/ BatteryRun

Spec == Init /\ [][Next]_vars

(* --------------------- the library functions on their own --------------- *)
(* One call of a function of SolarEstimator: Init draws the arguments, the  *)
(* action is the call returning.  The request handlers stay idle.           *)

Called(fn) == /\ Idle /\ ret = None /\ call.some /\ call.v.fn = fn
Returns(fn, outcome) ==
  /\ call.some /\ call.v.fn = fn /\ ret = None
  /\ ret' = Some(outcome)
  /\ UNCHANGED <<call, handler_vars>>

\* get_nigerian_solar_irradiance(lat, lon), the remote query ending in o
ResolverPoints ==
  {<<LagosLat, LagosLng>>, <<QInt(12), QInt(12)>>, <<QDec(9500, 1), QDec(-3250, 1)>>}

InitResolver ==
  /\ call \in {Some([fn |-> "get_nigerian_solar_irradiance",
                     lat |-> p[1], lon |-> p[2], o |-> o]) :
                 p \in ResolverPoints, o \in RemoteOutcomes}
  /\ Called("get_nigerian_solar_irradiance")

ResolverReturn ==
  Returns("get_nigerian_solar_irradiance",
          get_nigerian_solar_irradiance(call.v.lat, call.v.lon, call.v.o))

NextResolver == ResolverReturn
SpecResolver == InitResolver /\ [][NextResolver]_vars

\* _get_cached_nigerian_irradiance(lat, lon): the catalog cities, the points
\* half-way between two of them, and a grid of whole degrees over the country
GridN == 3

Cities == 1..Len(NIGERIA_SOLAR_DATA)
Half(x, y) == QDiv(QAdd(x, y), QInt(2))

FallbackPoints ==
  {<<NIGERIA_SOLAR_DATA[i].lat, NIGERIA_SOLAR_DATA[i].lng>> : i \in Cities}
    \cup {<<Half(NIGERIA_SOLAR_DATA[i].lat, NIGERIA_SOLAR_DATA[j].lat),
            Half(NIGERIA_SOLAR_DATA[i].lng, NIGERIA_SOLAR_DATA[j].lng)>> :
            i \in Cities, j \in Cities}
    \cup {<<QInt(4 + 3 * i), QInt(3 + 3 * j)>> : i \in 0..GridN, j \in 0..GridN}

InitFallback ==
  /\ call \in {Some([fn |-> "_get_cached_nigerian_irradiance",
                     lat |-> p[1], lon |-> p[2]]) : p \in FallbackPoints}
  /\ Called("_get_cached_nigerian_irradiance")

FallbackReturn ==
  Returns("_get_cached_nigerian_irradiance",
          get_cached_nigerian_irradiance(call.v.lat, call.v.lon))

NextFallback == FallbackReturn
SpecFallback == InitFallback /\ [][NextFallback]_vars

\* calculate_total_losses(region, panel_tilt, has_battery), called for two
\* tilts, and battery_calculation: the two places where a tag is looked up
\* with a default
Regions == {"north", "south", "middle_belt", "lagos", "mars", ""}
Tilts == {QInt(t) : t \in {-35, 0, 10, 15, 20, 40, 64, 65, 66, 90}}
           \cup {QDec(14500, 1), QDec(15500, 1)}

InitLosses ==
  /\ call \in {Some([fn |-> "calculate_total_losses", region |-> r,
                     t1 |-> t1, t2 |-> t2, has_battery |-> b]) :
                 r \in Regions, t1 \in Tilts, t2 \in Tilts, b \in BOOLEAN}
               \cup {Some([fn |-> "battery_calculation", data |-> d]) :
                       d \in BatteryPayloads}
  /\ Idle /\ ret = None

LossesReturn ==
  Returns("calculate_total_losses",
          [r1 |-> calculate_total_losses(call.v.region, call.v.t1, call.v.has_battery),
           r2 |-> calculate_total_losses(call.v.region, call.v.t2, call.v.has_battery)])

\* the body of battery_calculation run on request.json = data
BatteryReturn == Returns("battery_calculation", battery_handler(call.v.data))

NextLosses == LossesReturn \/ BatteryReturn
SpecLosses == InitLosses /\ [][NextLosses]_vars

\* estimate_panel_count(area, panel_watts): areas in half square metres, and
\* the multiples of 36 square metres, at which area * 0.85 / 1.8 is whole
MaxHalfAreas == 60
MaxWholeAreas == 9

Areas == {QDec(500 * k, 1) : k \in 0..MaxHalfAreas}
           \cup {QInt(36 * k) : k \in 1..MaxWholeAreas}
PanelWatts == {450, 300}

InitPanels ==
  /\ call \in {Some([fn |-> "estimate_panel_count", area |-> a, panel_watts |-> w]) :
                 a \in Areas, w \in PanelWatts}
  /\ Called("estimate_panel_count")

PanelsReturn ==
  Returns("estimate_panel_count",
          estimate_panel_count(call.v.area, call.v.panel_watts))

NextPanels == PanelsReturn
SpecPanels == InitPanels /\ [][NextPanels]_vars

\* calculate_financial_analysis(annual_energy_kwh, system_cost), called
\* directly as advanced_solar_analysis calls it, and calculate_advanced_benefits
\* called with the flag of solar_estimate
MaxEnergy == 9

Energies == {QInt(700 * k) : k \in -3..MaxEnergy}
Costs == {QInt(-100), QInt(0), QInt(1), QInt(5000)}

InitFinancial ==
  /\ call \in {Some([fn |-> f, annual_energy_kwh |-> e, system_cost |-> c]) :
                 f \in {"calculate_financial_analysis", "calculate_advanced_benefits"},
                 e \in Energies, c \in Costs}
  /\ Idle /\ ret = None

FinancialReturn ==
  Returns("calculate_financial_analysis",
          calculate_financial_analysis(call.v.annual_energy_kwh, call.v.system_cost))

BenefitsReturn ==
  Returns("calculate_advanced_benefits",
          calculate_advanced_benefits(call.v.annual_energy_kwh, call.v.system_cost,
                                      include_financial(call.v.system_cost)))

NextFinancial == FinancialReturn \/ BenefitsReturn
SpecFinancial == InitFinancial /\ [][NextFinancial]_vars

\* the catalog endpoint next to the fallback search: one request of
\* /api/nigerian-cities, or one call of _get_cached_nigerian_irradiance
InitCatalog ==
  /\ call \in {Some([fn |-> "_get_cached_nigerian_irradiance",
                     lat |-> p[1], lon |-> p[2]]) : p \in FallbackPoints}
               \cup {Some([fn |-> "nigerian_cities"])}
  /\ Idle /\ ret = None

CatalogReturn == Returns("nigerian_cities", nigerian_cities)

NextCatalog == CatalogReturn \/ FallbackReturn
SpecCatalog == InitCatalog /\ [][NextCatalog]_vars

\* calculate_solar_potential(irradiance, area, efficiency, region, panel_tilt,
\* has_battery), called with its arguments, with area * k and with
\* efficiency * k while the clock reads one month, and then called once more
\* with its arguments, the clock read again
EnergyIrradiances == {QDec(4800, 1), QInt(5)}
EnergyAreas == {QInt(20), QDec(12500, 1)}
EnergyRegions == {"middle_belt", "north"}
Scales == {QInt(2), QInt(3), QDec(1500, 1)}

InitEnergy ==
  /\ call \in {Some([fn |-> "calculate_solar_potential", irradiance |-> i, area |-> a,
                     efficiency |-> QDec(180, 1), region |-> r,
                     panel_tilt |-> QInt(15), has_battery |-> b, k |-> k]) :
                 i \in EnergyIrradiances, a \in EnergyAreas, r \in EnergyRegions,
                 b \in BOOLEAN, k \in Scales}
  /\ Called("calculate_solar_potential")

\* what one call returns while the clock reads month: the exact value of the
\* expression, and the double
energy_of(c, area, efficiency, month) ==
  [exact  |-> calculate_solar_potential(c.irradiance, area, efficiency, c.region,
                                        c.panel_tilt, c.has_battery, month),
   double |-> calculate_solar_potential_double(c.irradiance, area, efficiency, c.region,
                                               c.panel_tilt, c.has_battery, month)]

EnergyReturn ==
  \E month \in Months :
    Returns("calculate_solar_potential",
            [current_month |-> month,
             energy |-> energy_of(call.v, call.v.area, call.v.efficiency, month),
             area_scaled |->
               energy_of(call.v, QMul(call.v.area, call.v.k), call.v.efficiency, month),
             efficiency_scaled |->
               energy_of(call.v, call.v.area, QMul(call.v.efficiency, call.v.k), month)])

EnergyReturnAgain ==
  /\ call.some /\ call.v.fn = "calculate_solar_potential"
  /\ ret.some /\ "again" \notin DOMAIN ret.v
  /\ \E month \in Months :
       ret' = Some([again |->
                      [current_month |-> month,
                       energy |-> energy_of(call.v, call.v.area, call.v.efficiency, month)]]
                   @@ ret.v)
  /\ UNCHANGED <<call, handler_vars>>

NextEnergy == EnergyReturn \/ EnergyReturnAgain
SpecEnergy == InitEnergy /\ [][NextEnergy]_vars

(* ------------------------- concurrent requests -------------------------- *)
(* MaxRequests requests of solar_estimate served at the same time.  Each    *)
(* has a frame of its own (the handler's position and local variables, its  *)
(* request and its response); the module-level tables, the estimator object *)
(* and the Analytics rows are shared.  The variables pc .. responses hold   *)
(* the frame of the request that is running, ret holds the frames of the    *)
(* others and the shared objects, call holds what the environment gives     *)
(* each request: its JSON body, its login, the month the clock reads, the   *)
(* outcomes of its two remote queries and of its commit.                    *)

MaxRequests == 2
Requests == 1..MaxRequests

\* solar_estimator = SolarEstimator() of line 356, the one shared instance
solar_estimator ==
  [loss_factors |-> loss_factors, regional_adjustments |-> regional_adjustments]

\* the objects every request reads
shared_tables ==
  [NIGERIA_SOLAR_DATA |-> NIGERIA_SOLAR_DATA,
   NIGERIA_MONTHLY_FACTORS |-> NIGERIA_MONTHLY_FACTORS,
   solar_estimator |-> solar_estimator]

\* what the environment gives one request: a request served from the cached
\* table, one served from the remote source, one whose commit fails, and
\* one whose body does not parse
ConcurrentPlans ==
  <<[data |-> Payload([latitude |-> Some(Num(LagosLat)), longitude |-> Some(Num(LagosLng))]),
    authenticated |-> FALSE, month |-> 6,
    o1 |-> [kind |-> "Timeout"], o2 |-> [kind |-> "Timeout"], db |-> "ok"],
   [data |-> Payload([latitude |-> Some(Num(QInt(12))), longitude |-> Some(Num(QInt(12))),
                      area |-> Some(Num(QInt(36))), region |-> Some(JStr("north")),
                      has_battery |-> Some(JBool(TRUE)),
                      system_cost |-> Some(Num(QInt(5000)))]),
    authenticated |-> TRUE, month |-> 10,
    o1 |-> [kind |-> "response", status_code |-> 200,
            body |-> [json |-> "ok", samples |-> <<Num(QDec(4200, 1)), Num(QDec(5400, 1))>>]],
    o2 |-> [kind |-> "response", status_code |-> 200,
            body |-> [json |-> "ok", samples |-> <<Num(QDec(5400, 1))>>]],
    db |-> "ok"],
   [data |-> Payload([latitude |-> Some(Num(LagosLat)), longitude |-> Some(Num(LagosLng)),
                      area |-> Some(Num(QInt(50)))]),
    authenticated |-> TRUE, month |-> 10,
    o1 |-> [kind |-> "Timeout"], o2 |-> [kind |-> "ConnectionError"],
    db |-> "OperationalError"],
   [data |-> Payload([latitude |-> Some(JStr("abc")), longitude |-> Some(Num(LagosLng))]),
    authenticated |-> FALSE, month |-> 6,
    o1 |-> [kind |-> "Timeout"], o2 |-> [kind |-> "Timeout"], db |-> "ok"]>>

\* the requests are alike, so the plans are drawn in non-decreasing order
PlanChoices == {f \in [Requests -> DOMAIN ConcurrentPlans] :
                  \A i \in Requests, j \in Requests : i <= j => f[i] <= f[j]}

\* the frame of a request that has not been received yet
idle_frame ==
  [pc |-> "idle", endpoint |-> "none", authenticated |-> FALSE, data |-> None,
   locals |-> NoLocals, remote_queries |-> 0, fallback_lookups |-> 0,
   response |-> None, responses |-> 0]

\* the frame of the request that is running
running_frame ==
  [pc |-> pc, endpoint |-> endpoint, authenticated |-> authenticated, data |-> data,
   locals |-> locals, remote_queries |-> remote_queries,
   fallback_lookups |-> fallback_lookups, response |-> response,
   responses |-> responses]

\* the handler's variables kept in one module-level place: what the request
\* that ran before assigned is what the resumed request reads
request_frame_global_locals(own, left) ==
  [own EXCEPT !.locals = left.locals @@ own.locals]

\* the variables of solar_estimate are locals of the call, and request is
\* bound to the context of the request: a request that is resumed finds its
\* own frame, whatever the request that ran before it left
request_frame(own, left) == own

InitConcurrent ==
  /\ call \in {Some([fn |-> "solar_estimate",
                     plans |-> [i \in Requests |-> ConcurrentPlans[f[i]]]]) :
                 f \in PlanChoices}
  /\ ret = Some([running |-> 1, frames |-> [i \in Requests |-> idle_frame],
                 tables |-> shared_tables])
  /\ Idle

\* what the environment gives the request that is running
plan == call.v.plans[ret.v.running]

ConcurrentReceive ==
  Receive("solar_estimate", plan.data, plan.authenticated, "solar_parse")

ConcurrentParse == SolarParse

ConcurrentResolve ==
  /\ pc = "solar_resolve"
  /\ Resolved(get_nigerian_solar_irradiance(locals.lat, locals.lng, plan.o1),
              "solar_compute")
  /\ UNCHANGED <<endpoint, authenticated, data, analytics, call, ret>>

ConcurrentCompute ==
  /\ pc = "solar_compute"
  /\ SolarSized(plan.month,
                calculate_solar_potential(
                  locals.irradiance, locals.area, locals.efficiency,
                  locals.region, locals.panel_tilt, locals.has_battery, plan.month))
  /\ UNCHANGED <<endpoint, authenticated, data, remote_queries, fallback_lookups,
                 analytics, call, ret>>

ConcurrentTag ==
  /\ pc = "solar_tag"
  /\ Tagged(try_nasa_api(plan.o2))
  /\ UNCHANGED <<endpoint, authenticated, data, fallback_lookups, analytics, call, ret>>

ConcurrentRespond ==
  /\ pc = "solar_respond"
  /\ Responded(plan.db)
  /\ UNCHANGED <<endpoint, authenticated, data, locals, remote_queries,
                 fallback_lookups, call, ret>>

\* the variables pc .. responses take the values of frame f
Resume(f) ==
  /\ pc' = f.pc /\ endpoint' = f.endpoint /\ authenticated' = f.authenticated
  /\ data' = f.data /\ locals' = f.locals /\ remote_queries' = f.remote_queries
  /\ fallback_lookups' = f.fallback_lookups /\ response' = f.response
  /\ responses' = f.responses

\* the server stops running one request and goes on with request j, which
\* has not been answered yet
Switch ==
  \E j \in Requests :
    /\ j # ret.v.running
    /\ ret.v.frames[j].pc # "done"
    /\ ret' = Some([ret.v EXCEPT !.running = j,
                                 !.frames[ret.v.running] = running_frame])
    /\ Resume(request_frame(ret.v.frames[j], running_frame))
    /\ UNCHANGED <<analytics, call>>

NextConcurrent ==
  \/ ConcurrentReceive \/ ConcurrentParse \/ ConcurrentResolve
  \/ ConcurrentCompute \/ ConcurrentTag \/ ConcurrentRespond \/ Switch
SpecConcurrent == InitConcurrent /\ [][NextConcurrent]_vars

(* ================================ claims ================================ *)

Returned(fn) == call.some /\ call.v.fn = fn /\ ret.some

(* ---- C1 ---- *)

\* the remote query answered with status 200 and a well-formed mapping that
\* holds at least one non-null sample, every non-null sample a number
RemoteAnswered(o) ==
  /\ o.kind = "response" /\ o.status_code = 200 /\ o.body.json = "ok"
  /\ \E i \in DOMAIN o.body.samples : o.body.samples[i].t # "null"
  /\ \A i \in DOMAIN o.body.samples : o.body.samples[i].t \in {"null", "num"}

NonNull(o) == {i \in DOMAIN o.body.samples : o.body.samples[i].t # "null"}

RECURSIVE SumOver(_, _)
SumOver(samples, I) ==
  IF I = {} THEN QInt(0)
  ELSE LET i == CHOOSE j \in I : TRUE
       IN  QAdd(samples[i].v, SumOver(samples, I \ {i}))

\* m is the arithmetic mean of the non-null samples of o
IsMeanOf(m, o) ==
  QEq(QMul(m, QInt(Cardinality(NonNull(o)))), SumOver(o.body.samples, NonNull(o)))

Succeeded(route) ==
  /\ endpoint = route /\ response.some /\ response.v.status = 200
  /\ response.v.body.success

\* C2: in every successful response of solar_estimate the data-source tag
\* names the source of the irradiance the response reports: "nasa_api"
\* exactly when the irradiance is the mean obtained from the remote source,
\* "cached_data" exactly when it is the fallback city's catalog value.
C2_TagNamesSource ==
  Succeeded("solar_estimate") =>
    /\ (response.v.body.data_source = "nasa_api") <=> (locals.irradiance_source = "nasa")
    /\ (response.v.body.data_source = "cached_data") <=>
         (locals.irradiance_source = "cached")

\* the remote source was unreachable both times it was asked: the tag is right
C2_Witness ==
  /\ Succeeded("solar_estimate")
  /\ response.v.body.data_source = "cached_data"
  /\ locals.irradiance_source = "cached"
  /\ response.v.body.solar_data.daily_irradiance = 480

(* ---- C3 ---- *)

\* C3: while one estimation request is handled the remote source is queried
\* a single time, and the fallback is consulted only after that query.
C3_SingleRemoteQuery ==
  /\ remote_queries <= 1
  /\ fallback_lookups <= remote_queries

\* a request of advanced_solar_analysis answered after its one query
C3_Witness ==
  /\ Succeeded("advanced_solar") /\ remote_queries = 1 /\ fallback_lookups = 1

(* ---- C4 ---- *)

NonNumeric(v) == v.t \in {"str", "null"}
Missing(key) == ~data.some \/ key \notin DOMAIN data.v
Unparsable(key) == data.some /\ key \in DOMAIN data.v /\ NonNumeric(data.v[key])

InvalidEstimationInput ==
  \/ Missing("latitude") \/ Unparsable("latitude")
  \/ Missing("longitude") \/ Unparsable("longitude")
  \/ Unparsable("area") \/ Unparsable("efficiency")

\* C4: a request of solar_estimate whose latitude or longitude is missing or
\* non-numeric, or whose area or efficiency is non-numeric, is rejected with
\* success=false and an error message before any part of the estimation has
\* run: no remote query, no fallback lookup, no energy computation, no
\* analytics row.
C4_RejectedBeforeEstimation ==
  (endpoint = "solar_estimate" /\ InvalidEstimationInput) =>
    /\ pc \in {"solar_parse", "done"}
    /\ remote_queries = 0 /\ fallback_lookups = 0
    /\ "irradiance" \notin DOMAIN locals /\ "annual_energy" \notin DOMAIN locals
    /\ analytics = <<>>
    /\ pc = "done" =>
         /\ responses = 1 /\ response.some
         /\ response.v.status = 400
         /\ response.v.body.success = FALSE
         /\ "error" \in DOMAIN response.v.body

\* coordinates are given and numeric, the area is not: the request is rejected
C4_Witness ==
  /\ endpoint = "solar_estimate" /\ pc = "done"
  /\ ~Missing("latitude") /\ ~Unparsable("latitude")
  /\ ~Missing("longitude") /\ ~Unparsable("longitude")
  /\ Unparsable("area")
  /\ response.v.body.success = FALSE /\ remote_queries = 0

(* ---- C5 ---- *)

\* the handler ran: solar_estimate is open, the other two are behind
\* @login_required
Admitted == endpoint = "solar_estimate" \/ authenticated

Routes == {"solar_estimate", "advanced_solar", "battery_calc"}

UniformSuccess(r) ==
  /\ r.status = 200 /\ r.body.success = TRUE /\ "error" \notin DOMAIN r.body
UniformFailure(r) ==
  /\ r.status = 400 /\ r.body.success = FALSE /\ "error" \in DOMAIN r.body
  /\ DOMAIN r.body = {"success", "error"}

C5_Responses ==
  /\ responses <= 1
  /\ response.some <=> responses = 1
  /\ response.some <=> pc = "done"
  /\ pc # "idle" => endpoint \in Routes
  /\ (response.some /\ Admitted) =>
       \/ UniformSuccess(response.v)
       \/ UniformFailure(response.v)

\* the stages of a handler, in the order it goes through them
Rank(stage) ==
  CASE stage = "idle" -> 0
    [] stage \in {"solar_parse", "advanced_parse", "battery_run"} -> 1
    [] stage \in {"solar_resolve", "advanced_resolve"} -> 2
    [] stage \in {"solar_compute", "advanced_compute"} -> 3
    [] stage = "solar_tag" -> 4
    [] stage = "solar_respond" -> 5
    [] stage = "done" -> 6

\* C5: a request to solar_estimate, advanced_solar_analysis or
\* battery_calculation that its handler runs for ends in exactly one response,
\* success=true with the result blocks or success=false with an error and a
\* non-success status; no fault leaves the handler unanswered (a step that
\* faults is the step that answers), nothing follows the response, and no
\* response carries success=true together with an error.
C5_OneUniformResponse ==
  /\ []C5_Responses
  /\ [][/\ ~response.some
        /\ Rank(pc') > Rank(pc)
        /\ response'.some <=> pc' = "done"]_vars

\* a fault of the computation itself (area 0 divides by zero in
\* estimate_panel_count) has been answered with the failure response
C5_Witness ==
  /\ endpoint = "advanced_solar" /\ pc = "done" /\ remote_queries = 1
  /\ UniformFailure(response.v)
  /\ response.v.body.error = "ZeroDivisionError"

(* ---- C6 ---- *)

Tenths(k) == QDiv(QInt(k), QInt(10))

\* reported (in tenths) is exact rounded to one decimal place
RoundsTo1(reported, exact) ==
  QLe(QAbs(QSub(Tenths(reported), exact)), QDec(50, 1))

\* the savings of 25 years of output that degrades by 0.5% a year, in closed
\* form: energy * rate * (1 - 0.995^25) / 0.005
Total25YearSavings(energy) ==
  QMul(QMul(energy, NIGERIA_ELECTRICITY_COST),
       QDiv(QSub(QInt(1), QPow(QDec(995, 1), 25)), QDec(5, 1)))

RoiPercent(energy, cost) ==
  QMul(QDiv(QSub(Total25YearSavings(energy), cost), cost), QInt(100))

FinancialKeys == {"simple_payback_years", "total_25year_savings_usd",
                  "return_on_investment_percent", "system_cost_usd"}

\* what C6 says of calculate_advanced_benefits called as solar_estimate calls it
BlockOnlyForPositiveCost ==
  Returned("calculate_advanced_benefits") =>
    /\ ret.v.exc = "none"
    /\ IF QPos(call.v.system_cost)
       THEN FinancialKeys \subseteq DOMAIN ret.v.v
       ELSE FinancialKeys \cap DOMAIN ret.v.v = {}

\* the statement of C6 as the claim has it: for any annual energy and any
\* system cost the financial computation does not fault; with system_cost
\* not above 0 the block is absent (ROI 0 when called directly); with zero
\* savings the payback is 0; with system_cost > 0 the payback is
\* cost / (energy * cost_per_kWh) and the ROI is (total - cost) / cost * 100,
\* both as reported, to one decimal place.
C6_AsClaimed ==
  /\ BlockOnlyForPositiveCost
  /\ Returned("calculate_financial_analysis") =>
       LET energy  == call.v.annual_energy_kwh
           cost    == call.v.system_cost
           savings == QMul(energy, NIGERIA_ELECTRICITY_COST)
       IN  /\ ret.v.exc = "none"
           /\ ~QPos(cost) => ret.v.v.return_on_investment_percent = 0
           /\ QIsZero(savings) => ret.v.v.simple_payback_years = 0
           /\ (QPos(cost) /\ ~QIsZero(savings)) =>
                RoundsTo1(ret.v.v.simple_payback_years, QDiv(cost, savings))
           /\ QPos(cost) =>
                RoundsTo1(ret.v.v.return_on_investment_percent, RoiPercent(energy, cost))

\* C6: for any annual energy and any system cost the financial computation
\* does not fault; with system_cost not above 0 the block is absent (ROI 0
\* when called directly); with annual savings zero or negative the payback is
\* 0; with system_cost > 0 the ROI is (total - cost) / cost * 100 and, when
\* the annual savings are positive, the payback is
\* cost / (energy * cost_per_kWh), both rounded to one decimal place.
C6_FinancialGuards ==
  /\ BlockOnlyForPositiveCost
  /\ Returned("calculate_financial_analysis") =>
       LET energy  == call.v.annual_energy_kwh
           cost    == call.v.system_cost
           savings == QMul(energy, NIGERIA_ELECTRICITY_COST)
       IN  /\ ret.v.exc = "none"
           /\ ~QPos(cost) => ret.v.v.return_on_investment_percent = 0
           /\ ~QPos(savings) => ret.v.v.simple_payback_years = 0
           /\ (QPos(cost) /\ QPos(savings)) =>
                RoundsTo1(ret.v.v.simple_payback_years, QDiv(cost, savings))
           /\ QPos(cost) =>
                RoundsTo1(ret.v.v.return_on_investment_percent, RoiPercent(energy, cost))

\* negative energy at a positive cost: the payback is reported as 0
C6_Witness ==
  /\ Returned("calculate_financial_analysis")
  /\ call.v.annual_energy_kwh.neg /\ call.v.system_cost = QInt(5000)
  /\ ret.v.exc = "none" /\ ret.v.v.simple_payback_years = 0

(* ---- C7 ---- *)

\* the square of the unweighted Euclidean distance, in raw degrees, from the
\* point of the call to city k
SquaredDegrees(k) ==
  LET dlat == QSub(call.v.lat, NIGERIA_SOLAR_DATA[k].lat)
      dlng == QSub(call.v.lon, NIGERIA_SOLAR_DATA[k].lng)
  IN  QAdd(QMul(dlat, dlat), QMul(dlng, dlng))

TableOrder ==
  <<"lagos", "abuja", "kano", "ibadan", "port harcourt", "benin city", "kaduna",
    "maiduguri", "ilorin", "enugu", "sokoto">>

RECURSIVE ProductOver(_)
\* the product of the loss factors at the indices I
ProductOver(I) ==
  IF I = {} THEN QInt(1)
  ELSE LET i == CHOOSE j \in I : TRUE
       IN  QMul(loss_factors[i].factor, ProductOver(I \ {i}))

LossFactorProduct == ProductOver(DOMAIN loss_factors)

\* max(0.85, 1 - 0.003 * |tilt - 15|)
TiltFactor(tilt) ==
  LET off == QAbs(QSub(tilt, QInt(15)))
      raw == QSub(QInt(1), QMul(QDec(3, 1), off))
  IN  IF QLt(raw, QDec(850, 1)) THEN QDec(850, 1) ELSE raw

BatteryFactor(has_battery) == IF has_battery THEN QDec(920, 1) ELSE QInt(1)

KnownRegions == {"north", "south", "middle_belt", "lagos"}
KnownPriorities == {"essential", "partial", "whole_house"}

\* the field of the request is absent or a number
AbsentOrNumber(d, key) == key \notin DOMAIN d \/ d[key].t = "num"
NumberOr(d, key, default) == IF key \in DOMAIN d THEN d[key].v ELSE default

\* C8: an unrecognized tag is not a cause of rejection: for a region outside
\* the regional-adjustment table calculate_total_losses returns the product
\* of the loss factors, the tilt factor and the battery factor, the regional
\* adjustment being exactly 1.0 for soiling and for temperature; for a
\* backup priority outside essential, partial, whole_house the battery
\* calculation returns success with the load factor 0.3 of essential.
C8_UnknownTagsDefault ==
  /\ (Returned("calculate_total_losses") /\ call.v.region \notin KnownRegions) =>
       QEq(ret.v.r1,
           QMul(QMul(LossFactorProduct, TiltFactor(call.v.t1)),
                BatteryFactor(call.v.has_battery)))
  /\ (/\ Returned("battery_calculation") /\ call.v.data.some
      /\ "backup_priority" \in DOMAIN call.v.data.v
      /\ call.v.data.v["backup_priority"].t = "str"
      /\ call.v.data.v["backup_priority"].s \notin KnownPriorities
      /\ AbsentOrNumber(call.v.data.v, "daily_energy")
      /\ AbsentOrNumber(call.v.data.v, "autonomy_days")) =>
       LET d == call.v.data.v
           usable == QMul(QMul(NumberOr(d, "daily_energy", QInt(10)), QDec(300, 1)),
                          QInt(QFloor(NumberOr(d, "autonomy_days", QInt(1)))))
       IN  /\ ret.v.status = 200 /\ ret.v.body.success = TRUE
           /\ RoundsTo1(ret.v.body.battery_analysis.usable_energy_kwh, usable)
           /\ RoundsTo1(ret.v.body.battery_analysis.required_capacity_kwh,
                        QDiv(usable, QDec(850, 1)))

\* the battery calculation has answered a request whose priority is "luxury"
C8_Witness ==
  /\ Returned("battery_calculation") /\ call.v.data.some
  /\ "backup_priority" \in DOMAIN call.v.data.v
  /\ call.v.data.v["backup_priority"] = JStr("luxury")
  /\ "daily_energy" \in DOMAIN call.v.data.v
  /\ call.v.data.v["daily_energy"].t = "num"
  /\ ret.v.status = 200 /\ ret.v.body.battery_analysis.usable_energy_kwh > 0

(* ---- C9 ---- *)

OffOptimal(tilt) == QAbs(QSub(tilt, QInt(15)))

Adjustment(region) ==
  IF region \in KnownRegions
  THEN QMul(regional_adjustments[region].soiling, regional_adjustments[region].temperature)
  ELSE QInt(1)

\* the loss multiplier without the tilt factor
LossWithoutTilt(region, has_battery) ==
  QMul(QMul(LossFactorProduct, Adjustment(region)), BatteryFactor(has_battery))

\* C9: for a fixed region and battery flag and two tilts t1, t2 with
\* |t1 - 15| <= |t2 - 15|, calculate_total_losses at t1 is at least its value
\* at t2; at every tilt it is at least 0.85 times the loss multiplier without
\* the tilt factor, and equal to that for a tilt 50 degrees or more off 15.
C9_TiltMonotoneFloored ==
  Returned("calculate_total_losses") =>
    LET floor == QMul(QDec(850, 1), LossWithoutTilt(call.v.region, call.v.has_battery))
    IN  /\ QLe(OffOptimal(call.v.t1), OffOptimal(call.v.t2)) => QLe(ret.v.r2, ret.v.r1)
        /\ QLe(floor, ret.v.r1)
        /\ QLe(QInt(50), OffOptimal(call.v.t1)) => QEq(ret.v.r1, floor)

\* tilts 40 and 65: the second is exactly 50 degrees off and at the floor, the
\* first is above it
C9_Witness ==
  /\ Returned("calculate_total_losses")
  /\ call.v.t1 = QInt(40) /\ call.v.t2 = QInt(65)
  /\ QLt(ret.v.r2, ret.v.r1)
  /\ QEq(ret.v.r2, QMul(QDec(850, 1),
                        LossWithoutTilt(call.v.region, call.v.has_battery)))

(* ---- C10 ---- *)

\* area * 0.85 / 1.8, exactly
PanelQuotient(area) == QDiv(QMul(area, QDec(850, 1)), QDec(1800, 1))

\* the statement of C10 as the claim has it: for every area > 0,
\* estimated_panels = floor(area * 0.85 / 1.8) and system_size_kw =
\* estimated_panels * panel_watts / 1000; for area = 20, and 450 W, 9 panels
\* and 4.05 kW.
C10_AsClaimed ==
  (Returned("estimate_panel_count") /\ QPos(call.v.area)) =>
    /\ ret.v.exc = "none"
    /\ ret.v.v.estimated_panels = QFloor(PanelQuotient(call.v.area))
    /\ QEq(Tenths(ret.v.v.system_size_kw),
           QDiv(QInt(ret.v.v.estimated_panels * call.v.panel_watts), QInt(1000)))

\* C10: for every area > 0, estimated_panels is floor(area * 0.85 / 1.8) as
\* double arithmetic evaluates it: the exact floor, or one less where the
\* exact quotient is a whole number, or within rounding error above one, that
\* the float quotient falls short of; system_size_kw is estimated_panels *
\* panel_watts / 1000 rounded to one decimal place; for area = 20, and 450 W,
\* 9 panels and 4.0 kW.
C10_PanelCountAndSize ==
  (Returned("estimate_panel_count") /\ QPos(call.v.area)) =>
    LET q == PanelQuotient(call.v.area)
        f == QFloor(q)
        n == ret.v.v.estimated_panels
    IN  /\ ret.v.exc = "none"
        /\ \/ n = f
           \/ /\ n = f - 1
              /\ QLe(QSub(q, QInt(f)), QDiv(q, QInt(2^30)))
        /\ ret.v.v.panel_watts = call.v.panel_watts
        /\ RoundsTo1(ret.v.v.system_size_kw,
                     QDiv(QInt(n * call.v.panel_watts), QInt(1000)))
        /\ (QEq(call.v.area, QInt(20)) /\ call.v.panel_watts = 450) =>
             (n = 9 /\ ret.v.v.system_size_kw = 40)

\* area 20 at 450 W: 9 panels, reported as 4.0 kW
C10_Witness ==
  /\ Returned("estimate_panel_count")
  /\ QEq(call.v.area, QInt(20)) /\ call.v.panel_watts = 450
  /\ ret.v.exc = "none"
  /\ ret.v.v.estimated_panels = 9 /\ ret.v.v.system_size_kw = 40

(* ---- C11 ---- *)

\* a name of the catalog in the lower case the city table writes its keys in
Lowercase(name) ==
  CASE name = "Lagos" -> "lagos"
    [] name = "Abuja" -> "abuja"
    [] name = "Kano" -> "kano"
    [] name = "Ibadan" -> "ibadan"
    [] name = "Port Harcourt" -> "port harcourt"
    [] name = "Benin City" -> "benin city"
    [] name = "Kaduna" -> "kaduna"
    [] name = "Maiduguri" -> "maiduguri"
    [] OTHER -> name

\* the (name, latitude, longitude) entries of a catalog answer, and of the
\* table the fallback searches
CatalogEntries(body) ==
  {<<Lowercase(body[i].name), body[i].lat, body[i].lng>> : i \in DOMAIN body}
SearchedCities ==
  {<<NIGERIA_SOLAR_DATA[i].name, NIGERIA_SOLAR_DATA[i].lat, NIGERIA_SOLAR_DATA[i].lng>> :
     i \in Cities}

\* C11: the catalog endpoint returns exactly the cities the fallback resolver
\* searches, name (up to letter case) and coordinates: every catalog entry is
\* a city of the fallback table, and every city the fallback selects is an
\* entry of the catalog with the same coordinates.
C11_CatalogIsCityTable ==
  /\ Returned("nigerian_cities") =>
       /\ ret.v.status = 200
       /\ CatalogEntries(ret.v.body) = SearchedCities
  /\ (Returned("_get_cached_nigerian_irradiance") /\ ret.v.closest_city # 0) =>
       \E i \in DOMAIN cities :
         /\ Lowercase(cities[i].name) = NIGERIA_SOLAR_DATA[ret.v.closest_city].name
         /\ QEq(cities[i].lat, NIGERIA_SOLAR_DATA[ret.v.closest_city].lat)
         /\ QEq(cities[i].lng, NIGERIA_SOLAR_DATA[ret.v.closest_city].lng)

\* the catalog was served: its eight entries are cities of the fallback table
C11_Witness ==
  /\ Returned("nigerian_cities")
  /\ Cardinality(CatalogEntries(ret.v.body)) = 8
  /\ CatalogEntries(ret.v.body) \subseteq SearchedCities

(* ---- C12 ---- *)

\* the frame of request i, running or not
FrameOf(i) == IF i = ret.v.running THEN running_frame ELSE ret.v.frames[i]

\* the response of solar_estimate to a request served alone, from what the
\* environment gives it (plan P): lines 526-583 run from top to bottom
SoloAnswered(P, l, t) ==
  IF t.exc # "none" THEN error_response(t.exc)
  ELSE IF P.authenticated /\ P.db # "ok" THEN error_response(P.db)
  ELSE solar_response([data_source |-> data_source_of(t.v)] @@ l)

SoloSized(P, l, annual_energy, benefits, panel_estimation) ==
  IF benefits.exc # "none" THEN error_response(benefits.exc)
  ELSE IF panel_estimation.exc # "none" THEN error_response(panel_estimation.exc)
  ELSE SoloAnswered(P, [current_month |-> P.month, annual_energy |-> annual_energy,
                        benefits |-> benefits.v,
                        panel_estimation |-> panel_estimation.v] @@ l,
                    try_nasa_api(P.o2))

SoloEnergy(P, l, annual_energy) ==
  SoloSized(P, l, annual_energy,
            calculate_advanced_benefits(annual_energy, l.system_cost,
                                        include_financial(l.system_cost)),
            estimate_panel_count(l.area, 450))

SoloResolved(P, l, r) ==
  IF r.exc # "none" THEN error_response(r.exc)
  ELSE SoloEnergy(P, [irradiance |-> r.v.irradiance,
                      irradiance_source |-> r.v.source] @@ l,
                  calculate_solar_potential(r.v.irradiance, l.area, l.efficiency, l.region,
                                            l.panel_tilt, l.has_battery, P.month))

SoloParsed(P, r) ==
  IF r.exc # "none" THEN error_response(r.exc)
  ELSE SoloResolved(P, r.v, get_nigerian_solar_irradiance(r.v.lat, r.v.lng, P.o1))

SoloResponse(P) == SoloParsed(P, solar_parse(P.data))

\* request i has its irradiance
HasResolved(i) == "irradiance" \in DOMAIN FrameOf(i).locals

\* C12: however the steps of concurrent solar_estimate requests interleave,
\* the city table, the seasonal table, the loss factors and the regional
\* adjustments stay what they were at start, every request that has been
\* answered got the response it gets when served alone with the same body,
\* login, month, remote outcomes and commit outcome, and two requests that
\* resolved the same coordinates under the same remote outcome hold the
\* same irradiance from the same source.
C12_ConcurrentRequestsIndependent ==
  /\ ret.v.tables = shared_tables
  /\ \A i \in Requests :
       FrameOf(i).pc = "done" =>
         /\ FrameOf(i).responses = 1
         /\ FrameOf(i).response = Some(SoloResponse(call.v.plans[i]))
  /\ \A i \in Requests, j \in Requests :
       ( /\ HasResolved(i) /\ HasResolved(j)
         /\ QEq(FrameOf(i).locals.lat, FrameOf(j).locals.lat)
         /\ QEq(FrameOf(i).locals.lng, FrameOf(j).locals.lng)
         /\ call.v.plans[i].o1 = call.v.plans[j].o1 ) =>
         /\ QEq(FrameOf(i).locals.irradiance, FrameOf(j).locals.irradiance)
         /\ FrameOf(i).locals.irradiance_source = FrameOf(j).locals.irradiance_source

\* request 2 was received, served and answered with success while request
\* 1, which asks for something else, stood between its resolution and its
\* energy computation
C12_Witness ==
  /\ ret.v.running = 2
  /\ ret.v.frames[1].pc = "solar_compute"
  /\ call.v.plans[1] # call.v.plans[2]
  /\ pc = "done" /\ response.some /\ response.v.status = 200
  /\ response.v.body.success
  /\ response = Some(SoloResponse(call.v.plans[2]))
  /\ Len(analytics) = 1

(* ---- C13 ---- *)

\* calculate_solar_potential has returned twice for the arguments of call
CalledTwice == Returned("calculate_solar_potential") /\ "again" \in DOMAIN ret.v

\* C13: the month that selects the seasonal multiplier is injectable: two
\* calls of calculate_solar_potential with the same explicit arguments
\* (irradiance, area, efficiency, region, tilt, battery flag) return the same
\* annual energy, whatever month the process clock reads at each call.
C13_MonthInjectable ==
  CalledTwice =>
    /\ QEq(ret.v.energy.exact, ret.v.again.energy.exact)
    /\ QEq(ret.v.energy.double, ret.v.again.energy.double)

\* the clock read the same month at both calls, and the energies agree
C13_Witness ==
  /\ CalledTwice
  /\ ret.v.current_month = ret.v.again.current_month
  /\ QPos(ret.v.energy.exact)
  /\ QEq(ret.v.energy.exact, ret.v.again.energy.exact)
  /\ QEq(ret.v.energy.double, ret.v.again.energy.double)

(* ---- C14 ---- *)

\* 2^-48, four times the rounding error eight double operations can add up to
RelTol == QMake(FALSE, <<1>>, LPow2(48))

\* a is b up to the relative error RelTol
Within(a, b) == QLe(QAbs(QSub(a, b)), QMul(QAbs(b), RelTol))

\* irradiance * area * efficiency * total_loss * 365 for the arguments of the
\* call: the exact value, and the double a program gets from left to right
FormulaExact ==
  QMul(QMul(QMul(QMul(call.v.irradiance, call.v.area), call.v.efficiency),
            calculate_total_losses(call.v.region, call.v.panel_tilt, call.v.has_battery)),
       QInt(365))
FormulaDouble ==
  float_mul(float_mul(float_mul(float_mul(fl(call.v.irradiance), fl(call.v.area)),
                                fl(call.v.efficiency)),
                      fl(calculate_total_losses(call.v.region, call.v.panel_tilt,
                                                call.v.has_battery))),
            QInt(365))

SeasonalFactorIsOne == QEq(seasonal_factor_of(ret.v.current_month), QInt(1))

\* C14 as claimed, of the doubles the function returns: the energy for
\* area * k, and for efficiency * k, is k times the energy for area and
\* efficiency; in a month whose seasonal factor is 1.0 the energy is
\* irradiance * area * efficiency * total_loss * 365.
C14_AsClaimed ==
  Returned("calculate_solar_potential") =>
    /\ QEq(ret.v.area_scaled.double, float_mul(call.v.k, ret.v.energy.double))
    /\ QEq(ret.v.efficiency_scaled.double, float_mul(call.v.k, ret.v.energy.double))
    /\ SeasonalFactorIsOne => QEq(ret.v.energy.double, FormulaDouble)

\* C14: with irradiance, region, tilt, battery flag and month fixed, the
\* expression calculate_solar_potential evaluates is linear in area and in
\* efficiency: its exact value for area * k, and for efficiency * k, is k
\* times its exact value for area and efficiency; the doubles the function
\* returns are those values up to the rounding error of the double products
\* (a relative error below 2^-48), and so k times each other up to that
\* error; in a month whose seasonal factor is 1.0 the returned double is the
\* double irradiance * area * efficiency * total_loss * 365 evaluates to.
C14_LinearUpToRounding ==
  Returned("calculate_solar_potential") =>
    /\ QEq(ret.v.area_scaled.exact, QMul(call.v.k, ret.v.energy.exact))
    /\ QEq(ret.v.efficiency_scaled.exact, QMul(call.v.k, ret.v.energy.exact))
    /\ Within(ret.v.energy.double, ret.v.energy.exact)
    /\ Within(ret.v.area_scaled.double, QMul(call.v.k, ret.v.energy.double))
    /\ Within(ret.v.efficiency_scaled.double, QMul(call.v.k, ret.v.energy.double))
    /\ SeasonalFactorIsOne =>
         /\ QEq(ret.v.energy.exact, FormulaExact)
         /\ QEq(ret.v.energy.double, FormulaDouble)

\* irradiance 5.0, area 20, efficiency 0.18, the default region and tilt, no
\* battery, October: 4961 kWh, and three times that for three times the area
C14_Witness ==
  /\ Returned("calculate_solar_potential")
  /\ QEq(call.v.irradiance, QInt(5)) /\ QEq(call.v.area, QInt(20))
  /\ call.v.region = "middle_belt" /\ ~call.v.has_battery
  /\ QEq(call.v.k, QInt(3)) /\ ret.v.current_month = 10
  /\ QRound(ret.v.energy.exact, 0) = 4961
  /\ QEq(ret.v.energy.double, FormulaDouble)
  /\ QEq(ret.v.area_scaled.exact, QMul(QInt(3), ret.v.energy.exact))
  /\ Within(ret.v.area_scaled.double, QMul(QInt(3), ret.v.energy.double))

(* ---- C15 ---- *)

\* C15: every solar-estimate request that is answered with success has a
\* collector area greater than 0, and its response reports neither a
\* negative annual energy nor a negative panel count.
C15_PositiveAreaInSuccess ==
  Succeeded("solar_estimate") =>
    /\ QPos(response.v.body.calculation_parameters.area_sq_m)
    /\ response.v.body.solar_data.annual_energy_kwh >= 0
    /\ response.v.body.system_size.estimated_panels >= 0

\* a request with area 0 is answered with the failure: the coverage ratio of
\* estimate_panel_count divides by the area
C15_Witness ==
  /\ endpoint = "solar_estimate" /\ pc = "done"
  /\ "area" \in DOMAIN locals /\ QIsZero(locals.area)
  /\ response.some /\ response.v.status = 400
  /\ ~response.v.body.success
  /\ response.v.body.error = "ZeroDivisionError"

====
